---- MODULE Spec2Model ----
(***************************************************************************)
(* mini-rag: the retrieval engine.                                         *)
(*   - chunkText        (retrieval.js, local)  sliding-window chunker      *)
(*   - cosineSim, topKByCosine (retrieval.js, local)  brute-force ranker   *)
(*   - the local store  (store.js)  MEMORY / NEXT_ID and its mutators      *)
(*   - keywordBoost, topKByVectorize (src/retrieval.js)  index mode        *)
(*                                                                         *)
(* Strings are sequences of one-character strings.  Scores are fixed-point *)
(* numbers: Scale units make 1.0, so one unit is 0.00001 and toFixed(4)    *)
(* rounds to a multiple of Unit4.                                          *)
(***************************************************************************)
EXTENDS Integers, Sequences, FiniteSets, TLC

VARIABLES
    \* ---- chunkText(text, chunkSize, overlap): one run of the loop
    ctText, ctSize, ctOverlap, ctI, ctPrev, ctChunks, ctWindows, ctPc,
    \* ---- keywordBoost(q, text): one call
    kbQ, kbText, kbPc, kbResult,
    \* ---- local store and brute-force /ask
    MEMORY, NEXT_ID, askPc, askQVec, askK, askRanked, askResult,
    \* ---- topKByVectorize(env, question, k): one call against an index and a row store
    vQuestion, vK, vIndex, vRows, vPc, vTopK, vMatches, vI, vItems, vResult,
    \* ---- local store: memory.json, the calls of addTextChunks and loadMemory in
    \* flight, and the history of the ids addTextChunks has assigned
    DISK, savePending, addPc, addI, loadPc, loadBuf, assigned,
    \* ---- one GET /ask request (Express handler over MEMORY, Hono handler over the
    \* index and the row store) and what it called
    rqMode, rqQ, rqKParam, rqOpenAi, rqK, rqPc, rqStatus, rqChunks, rqAnswer,
    rqEmbedCalls, rqEmbedFailed, rqSourceQueries, rqGenCalls, rqGenContext,
    \* ---- cloud mode: the D1 chunks table, the ids of the vectors in the index, and
    \* the POST /ingest requests in flight with what each did for each of its chunks
    D1, VECTORS, igParts, igI, igPc, igRow, igAdded, igStatus, igLog,
    \* for each /ingest request, the /ingest requests that had answered when it began
    igAfter,
    \* ---- cloud mode: one DELETE /delete/:id request, one POST /clear request, and
    \* one GET /ask request that arrives after the delete has answered
    dlParam, dlId, dlPc, dlStatus, clPc, clIds, clI, clStatus,
    caPc, caMatches, caI, caItems, caTop

chunkVars == <<ctText, ctSize, ctOverlap, ctI, ctPrev, ctChunks, ctWindows, ctPc>>
boostVars == <<kbQ, kbText, kbPc, kbResult>>
localVars == <<MEMORY, NEXT_ID, askPc, askQVec, askK, askRanked, askResult>>
vecVars   == <<vQuestion, vK, vIndex, vRows, vPc, vTopK, vMatches, vI, vItems, vResult>>
storeVars == <<DISK, savePending, addPc, addI, loadPc, loadBuf, assigned>>
reqVars   == <<rqMode, rqQ, rqKParam, rqOpenAi, rqK, rqPc, rqStatus, rqChunks, rqAnswer,
               rqEmbedCalls, rqEmbedFailed, rqSourceQueries, rqGenCalls, rqGenContext>>
cloudVars == <<D1, VECTORS, igParts, igI, igPc, igRow, igAdded, igStatus, igLog, igAfter>>
adminVars == <<dlParam, dlId, dlPc, dlStatus, clPc, clIds, clI, clStatus,
               caPc, caMatches, caI, caItems, caTop>>
vars      == <<chunkVars, boostVars, localVars, vecVars, storeVars, reqVars, cloudVars,
               adminVars>>

----------------------------------------------------------------------------
(* Generic helpers *)

Min(a, b) == IF a <= b THEN a ELSE b
Max(a, b) == IF a >= b THEN a ELSE b
Range(s)  == {s[i] : i \in 1..Len(s)}

\* All sequences over S of length 0..n
SeqsUpTo(S, n) == UNION {[1..m -> S] : m \in 0..n}

----------------------------------------------------------------------------
(* Strings *)

WhiteSpace == {" ", "\n"}

RECURSIVE TrimStart(_)
TrimStart(s) ==
    IF s = <<>> THEN <<>>
    ELSE IF Head(s) \in WhiteSpace THEN TrimStart(Tail(s)) ELSE s

RECURSIVE TrimEnd(_)
TrimEnd(s) ==
    IF s = <<>> THEN <<>>
    ELSE IF s[Len(s)] \in WhiteSpace THEN TrimEnd(SubSeq(s, 1, Len(s) - 1)) ELSE s

\* String.prototype.trim
Trim(s) == TrimEnd(TrimStart(s))

\* text.slice(i, end) for 0 <= i <= end <= text.length (0-based, end exclusive)
Slice(s, i, end) == SubSeq(s, i + 1, end)

----------------------------------------------------------------------------
(* chunkText: bounds *)

MaxTextLen   == 5
MaxChunkSize == 3
MaxOverlap   == 3
\* the model stops following a run of the loop after this many windows
MaxWindows   == 6

ChunkAlphabet == {"a", " "}

\* a variant that starts the next window one character too far
NextCursorSkips(end, overlap) == Max(0, end - overlap) + 1

\* the cursor after a window [i, end) that did not reach the end of the text
NextCursor(end, overlap) == Max(0, end - overlap)

\* `while (i < text.length)` is false: return chunks
ChunkExit ==
    /\ ctPc = "loop"
    /\ ~(ctI < Len(ctText))
    /\ ctPc' = "done"
    /\ UNCHANGED <<ctText, ctSize, ctOverlap, ctI, ctPrev, ctChunks, ctWindows>>
    /\ UNCHANGED <<boostVars, localVars, vecVars, storeVars, reqVars, cloudVars, adminVars>>

\* one iteration of the loop body
ChunkStep ==
    /\ ctPc = "loop"
    /\ ctI < Len(ctText)
    /\ Len(ctWindows) < MaxWindows
    /\ LET end   == Min(ctI + ctSize, Len(ctText))
           slice == Trim(Slice(ctText, ctI, end))
       IN /\ ctChunks' = IF slice # <<>> THEN Append(ctChunks, slice) ELSE ctChunks
          /\ ctWindows' = Append(ctWindows, <<ctI, end>>)
          /\ ctPrev' = ctI
          /\ IF end = Len(ctText)
                THEN /\ ctPc' = "done"
                     /\ ctI' = ctI
                ELSE /\ ctPc' = "loop"
                     /\ ctI' = NextCursor(end, ctOverlap)
    /\ UNCHANGED <<ctText, ctSize, ctOverlap>>
    /\ UNCHANGED <<boostVars, localVars, vecVars, storeVars, reqVars, cloudVars, adminVars>>

----------------------------------------------------------------------------
(* keywordBoost(q, text) *)

UpperCase == <<"A","B","C","D","E","F","G","H","I","J","K","L","M",
               "N","O","P","Q","R","S","T","U","V","W","X","Y","Z">>
LowerCase == <<"a","b","c","d","e","f","g","h","i","j","k","l","m",
               "n","o","p","q","r","s","t","u","v","w","x","y","z">>
Digits    == {"0","1","2","3","4","5","6","7","8","9"}

\* the lower-case letter of each upper-case letter
LowerMap ==
    [c \in Range(UpperCase) |-> LowerCase[CHOOSE i \in 1..Len(UpperCase) : UpperCase[i] = c]]

LowerChar(c) == IF c \in DOMAIN LowerMap THEN LowerMap[c] ELSE c

\* String.prototype.toLowerCase
ToLowerCase(s) == [i \in 1..Len(s) |-> LowerChar(s[i])]

AlnumChars == Range(LowerCase) \cup Digits

\* a character the regular expression [^a-z0-9] does NOT match
IsAlnum(c) == c \in AlnumChars

\* s.split(/[^a-z0-9]+/): the pieces between maximal runs of separators; a leading
\* or trailing run leaves an empty piece, as in JavaScript
RECURSIVE SplitFrom(_, _, _, _, _)
SplitFrom(s, p, cur, acc, inSep) ==
    IF p > Len(s) THEN Append(acc, cur)
    ELSE IF IsAlnum(s[p]) THEN SplitFrom(s, p + 1, Append(cur, s[p]), acc, FALSE)
    ELSE IF inSep THEN SplitFrom(s, p + 1, cur, acc, TRUE)
    ELSE SplitFrom(s, p + 1, <<>>, Append(acc, cur), TRUE)

Split(s) == SplitFrom(s, 1, <<>>, <<>>, FALSE)

\* String.prototype.includes
Includes(hay, t) ==
    \E p \in 0..(Len(hay) - Len(t)) : SubSeq(hay, p + 1, p + Len(t)) = t

\* `const stop = new Set([...])`
StopWords == {
    <<"t","h","e">>, <<"i","s">>, <<"a","r","e">>, <<"i","n">>, <<"o","f">>,
    <<"a","n","d">>, <<"t","o">>, <<"a">>, <<"a","n">>, <<"w","h","e","r","e">>,
    <<"w","h","a","t">>, <<"w","h","i","c","h">>, <<"w","h","o">>,
    <<"w","h","a","t","s">>, <<"h","o","w">>, <<"d","o","e","s">>, <<"d","o">>,
    <<"d","i","d">>, <<"o","n">>, <<"a","t">>, <<"f","o","r">>, <<"w","i","t","h">>,
    <<"f","r","o","m">>, <<"b","y">>, <<"a","b","o","u","t">>, <<"i","n","t","o">>,
    <<"o","v","e","r">>, <<"u","n","d","e","r">>, <<"i","t">>, <<"i","t","s">>,
    <<"b","e">>, <<"w","a","s">>, <<"w","e","r","e">>, <<"b","e","e","n">> }

\* scores are fixed-point: Scale units are 1.0
Scale       == 100000
\* toFixed(4) keeps multiples of 0.0001
Unit4       == 10
\* `hits * 0.05`
BoostPerHit == 5000
\* `Math.min(0.2, ...)`
BoostCap    == 20000

\* the filter of `toks`: t && t.length > 2 && !stop.has(t)
IsKeyword(t) == t # <<>> /\ Len(t) > 2 /\ t \notin StopWords

\* the keyword tokens of the query, in order (duplicates kept)
QueryTokens(q) == SelectSeq(Split(ToLowerCase(q)), IsKeyword)

\* a variant that does not cap the boost
KeywordBoostUncapped(q, text) ==
    IF q = <<>> \/ text = <<>> THEN 0
    ELSE LET toks == QueryTokens(q)
             hay  == ToLowerCase(text)
         IN BoostPerHit * Cardinality({i \in 1..Len(toks) : Includes(hay, toks[i])})

keywordBoost(q, text) ==
    IF q = <<>> \/ text = <<>> THEN 0
    ELSE LET toks == QueryTokens(q)
         IN IF Len(toks) = 0 THEN 0
            ELSE LET hay  == ToLowerCase(text)
                     hits == Cardinality({i \in 1..Len(toks) : Includes(hay, toks[i])})
                 IN Min(BoostCap, hits * BoostPerHit)

(* bounds and inputs of the keywordBoost specification *)
MaxQWords == 5

QWords == { <<"c","a","t">>, <<"D","o","g">>, <<"t","h","e">>, <<"o","x">> }
QSeparators == { <<" ">>, <<"?"," ">> }

RECURSIVE JoinWords(_, _)
JoinWords(ws, sep) ==
    IF ws = <<>> THEN <<>>
    ELSE IF Len(ws) = 1 THEN ws[1] \o sep
    ELSE ws[1] \o sep \o JoinWords(Tail(ws), sep)

BoostQueries == { JoinWords(ws, sep) : ws \in SeqsUpTo(QWords, MaxQWords), sep \in QSeparators }

BoostTexts == {
    <<>>,
    <<" ">>,
    <<"T","h","e"," ","c","a","t">>,
    <<"c","o","n","c","a","t"," ","D","O","G">>,
    <<"d","o"," ","g","o"," ","o","x">>,
    <<"c","a"," ","t","h","e">> }

\* the call keywordBoost(kbQ, kbText) returns
KeywordBoostCall ==
    /\ kbPc = "call"
    /\ kbResult' = keywordBoost(kbQ, kbText)
    /\ kbPc' = "done"
    /\ UNCHANGED <<kbQ, kbText>>
    /\ UNCHANGED <<chunkVars, localVars, vecVars, storeVars, reqVars, cloudVars, adminVars>>

----------------------------------------------------------------------------
(* Fixed-point arithmetic for scores *)

Abs(x)  == IF x < 0 THEN -x ELSE x
Sign(x) == IF x < 0 THEN -1 ELSE 1

\* floor of the square root, by bisection on lo..hi (lo*lo <= n < (hi+1)*(hi+1))
RECURSIVE IsqrtIn(_, _, _)
IsqrtIn(n, lo, hi) ==
    IF lo >= hi THEN lo
    ELSE LET mid == (lo + hi + 1) \div 2
         IN IF mid * mid <= n THEN IsqrtIn(n, mid, hi) ELSE IsqrtIn(n, lo, mid - 1)

Isqrt(n) == IsqrtIn(n, 0, 46340)

\* Number(x.toFixed(4)): the nearest multiple of 0.0001, a tie going away from zero
Fixed4(x) == Sign(x) * (((Abs(x) + (Unit4 \div 2)) \div Unit4) * Unit4)

\* dot / (Math.sqrt(na) * Math.sqrt(nb)) in fixed point, truncated
CosQuotient(dot, na, nb) ==
    Sign(dot) * ((Abs(dot) * (Scale * 1000)) \div Isqrt(na * nb * 1000000))

----------------------------------------------------------------------------
(* cosineSim, topKByCosine over the local store's MEMORY *)

RECURSIVE SumTo(_, _)
\* f[1] + ... + f[n]
SumTo(f, n) == IF n = 0 THEN 0 ELSE f[n] + SumTo(f, n - 1)

\* a variant that guards against a zero query vector only: a zero stored vector gives
\* 0/0, a value that is no score (it is written as one unit above the largest score)
CosineSimGuardsQueryOnly(a, b) ==
    IF Len(b) < Len(a) THEN 0
    ELSE LET n   == Len(a)
             dot == SumTo([i \in 1..n |-> a[i] * b[i]], n)
             na  == SumTo([i \in 1..n |-> a[i] * a[i]], n)
             nb  == SumTo([i \in 1..n |-> b[i] * b[i]], n)
         IN IF na = 0 THEN 0 ELSE IF nb = 0 THEN Scale + 1 ELSE CosQuotient(dot, na, nb)

\* The loop runs over a.length.  Where b is shorter than a, b[i] is undefined and
\* dot and nb become NaN; !NaN is true, so the function returns 0.  Where b is
\* longer, its extra components are never read.
cosineSim(a, b) ==
    IF Len(b) < Len(a) THEN 0
    ELSE LET n   == Len(a)
             dot == SumTo([i \in 1..n |-> a[i] * b[i]], n)
             na  == SumTo([i \in 1..n |-> a[i] * a[i]], n)
             nb  == SumTo([i \in 1..n |-> b[i] * b[i]], n)
         IN IF na = 0 \/ nb = 0 THEN 0 ELSE CosQuotient(dot, na, nb)

\* Array.prototype.sort((a, b) => b.score - a.score): stable, descending by score.
\* InsertDesc puts x after every element whose score is >= x.score.
RECURSIVE InsertDesc(_, _)
InsertDesc(sorted, x) ==
    IF sorted = <<>> THEN <<x>>
    ELSE IF Head(sorted).score >= x.score
         THEN <<Head(sorted)>> \o InsertDesc(Tail(sorted), x)
         ELSE <<x>> \o sorted

RECURSIVE SortDescFrom(_, _, _)
SortDescFrom(s, p, acc) ==
    IF p > Len(s) THEN acc ELSE SortDescFrom(s, p + 1, InsertDesc(acc, s[p]))

SortByScoreDesc(s) == SortDescFrom(s, 1, <<>>)

\* Array.prototype.slice(0, k), k >= 0
Slice0(s, k) == SubSeq(s, 1, Min(k, Len(s)))

\* `.map(it => ({ ...it, score: cosineSim(qVec, it.embedding) }))`
Scored(mem, qVec) ==
    [i \in 1..Len(mem) |->
       [id |-> mem[i].id, text |-> mem[i].text, embedding |-> mem[i].embedding,
        score |-> cosineSim(qVec, mem[i].embedding)]]

\* a variant that cuts the corpus to k before sorting
RankedSliceFirst(mem, qVec, k) == SortByScoreDesc(Slice0(Scored(mem, qVec), k))

\* a variant that ranks ascending
RankedAscending(mem, qVec, k) ==
    LET neg == [i \in 1..Len(mem) |->
                  [id |-> mem[i].id, text |-> mem[i].text, embedding |-> mem[i].embedding,
                   score |-> 0 - cosineSim(qVec, mem[i].embedding)]]
        top == Slice0(SortByScoreDesc(neg), k)
    IN [i \in 1..Len(top) |->
          [id |-> top[i].id, text |-> top[i].text, embedding |-> top[i].embedding,
           score |-> 0 - top[i].score]]

\* a variant that forgets the cut to k
RankedNoSlice(mem, qVec, k) == SortByScoreDesc(Scored(mem, qVec))

\* `.sort((a, b) => b.score - a.score).slice(0, k)`: the ranked items, before the
\* final map drops id and embedding
Ranked(mem, qVec, k) == Slice0(SortByScoreDesc(Scored(mem, qVec)), k)

\* `.map((r, i) => ({ ref: `#${i+1}`, score: Number(r.score.toFixed(4)), text: r.text }))`
\* A ref "#n" is the number n.
Labelled(top) ==
    [i \in 1..Len(top) |->
       [ref |-> i, score |-> Fixed4(top[i].score), text |-> top[i].text]]

\* topKByCosine(qVec, k) with mem = rawMemory()
topKByCosine(mem, qVec, k) == Labelled(Ranked(mem, qVec, k))

\* a variant in which `.sort` is applied to rawMemory() itself: the array is ordered
\* in place
MemoryAfterSortInPlace(mem, qVec) ==
    LET sorted == SortByScoreDesc(Scored(mem, qVec))
    IN [i \in 1..Len(sorted) |->
          [id |-> sorted[i].id, text |-> sorted[i].text, embedding |-> sorted[i].embedding]]

\* rawMemory() after topKByCosine(qVec, k): `mem.map(...)` builds a new array of new
\* objects, `.sort` orders that array in place, `.slice` and the last `.map` build
\* further arrays; nothing is assigned to mem, to its items or to NEXT_ID
MemoryAfterTopK(mem, qVec) ==
    LET copy == Scored(mem, qVec)
        sorted == SortByScoreDesc(copy)
    IN mem

(* bounds and inputs of the ranking specification *)
MaxMem == 3
MaxK   == 4

\* what the embedder returns for a question
QueryVectors == { <<1, 0>>, <<1, 1>>, <<0, 0>>, <<-1, 2>> }

\* embeddings found in MEMORY: the embedder's, and (after importMemory or loadMemory
\* of a file written with another model) vectors of another length
StoredVectors == { <<1, 0>>, <<1, 1>>, <<0, 0>>, <<-1, 0>>, <<1>>, <<1, 0, 1>> }

\* the texts of n stored chunks: neighbours differ, either text may come first
TextPatterns(n) ==
    { [i \in 1..n |-> IF i % 2 = p THEN <<"a">> ELSE <<"b">>] : p \in 0..1 }

\* a caller asks for the top k: `const qVec = await embed(q)` is pending
AskStart ==
    /\ askPc = "idle"
    /\ \E k \in 1..MaxK : askK' = k
    /\ askPc' = "embed"
    /\ UNCHANGED <<MEMORY, NEXT_ID, askQVec, askRanked, askResult>>
    /\ UNCHANGED <<chunkVars, boostVars, vecVars, storeVars, reqVars, cloudVars, adminVars>>

\* the embedder returns; `topKByCosine(qVec, k)` runs to its end without an await
AskRank ==
    /\ askPc = "embed"
    /\ \E v \in QueryVectors :
         /\ askQVec' = v
         /\ askRanked' = Ranked(MEMORY, v, askK)
         /\ askResult' = topKByCosine(MEMORY, v, askK)
         /\ MEMORY' = MemoryAfterTopK(MEMORY, v)
    /\ askPc' = "done"
    /\ UNCHANGED <<NEXT_ID, askK>>
    /\ UNCHANGED <<chunkVars, boostVars, vecVars, storeVars, reqVars, cloudVars, adminVars>>

----------------------------------------------------------------------------
(* topKByVectorize(env, question, k): index mode *)

MaxIndex == 12

\* `topK: Math.max(k, 12)`
MinPool == 12

QuestionKeywords == <<"t","h","e"," ","c","a","t"," ","d","o","g"," ","f","o","x"," ","o","w","l","?">>
QuestionPlain    == <<"W","h","o","?">>
Questions == { QuestionKeywords, QuestionPlain }

PlainText  == <<"s","u","n">>
RichText   == <<"d","o","g"," ","f","o","x","y"," ","o","w","l"," ","C","A","T">>
OneHitText == <<"c","o","n","c","a","t">>
BlankText  == <<" ", "\n">>

\* What getChunkById finds for an id: kind "row" (a row of the table; meta is the
\* TEXT column: "null", "json" for valid JSON, "bad" for text JSON.parse rejects),
\* "none" (no row), "throws" (the lookup fails).  delta moves the vector's raw score
\* inside its slot of the index's ranking.
Row(text, meta)  == [kind |-> "row", text |-> text, meta |-> meta]
NoRow            == [kind |-> "none", text |-> <<>>, meta |-> "null"]
LookupThrows     == [kind |-> "throws", text |-> <<>>, meta |-> "null"]

Variants == {
    [row |-> Row(PlainText, "json"),  delta |-> 0],
    [row |-> Row(RichText, "json"),   delta |-> 0],
    [row |-> Row(RichText, "null"),   delta |-> -1997],
    [row |-> Row(OneHitText, "json"), delta |-> 0],
    [row |-> Row(BlankText, "json"),  delta |-> 0],
    [row |-> Row(PlainText, "bad"),   delta |-> 0],
    [row |-> NoRow,                   delta |-> 0],
    [row |-> LookupThrows,            delta |-> 0] }

Backgrounds == {
    [row |-> Row(PlainText, "json"),  delta |-> 0],
    [row |-> Row(RichText, "json"),   delta |-> 0],
    [row |-> NoRow,                   delta |-> 0] }

\* raw scores of the index for the question, best first: 0.90, 0.87, 0.84, ...
BaseScore(i) == 90000 - 3000 * (i - 1)

\* the sets of at most one position of 1..n
SpecialSets(n) == { {p} : p \in 1..n } \cup { {} }

\* `env.AI.run(EMBEDDING_MODEL, ...)` returns a vector
VEmbedOk ==
    /\ vPc = "start"
    /\ vPc' = "embedded"
    /\ UNCHANGED <<vQuestion, vK, vIndex, vRows, vTopK, vMatches, vI, vItems, vResult>>
    /\ UNCHANGED <<chunkVars, boostVars, localVars, storeVars, reqVars, cloudVars, adminVars>>

\* it throws, or returns no array: `throw new Error('Failed to embed question')`
VEmbedFail ==
    /\ vPc = "start"
    /\ vPc' = "failed"
    /\ UNCHANGED <<vQuestion, vK, vIndex, vRows, vTopK, vMatches, vI, vItems, vResult>>
    /\ UNCHANGED <<chunkVars, boostVars, localVars, storeVars, reqVars, cloudVars, adminVars>>

\* a variant that asks the index for k candidates only
PoolSizeIsK(k) == k

\* `topK: Math.max(k, 12)`: the number of candidates asked of the index
PoolSize(k) == Max(k, MinPool)

\* `env.VECTOR_INDEX.query(qVec, { topK: Math.max(k, 12) })`: the best topK vectors
VQuery ==
    /\ vPc = "embedded"
    /\ vTopK' = PoolSize(vK)
    /\ vMatches' = Slice0(vIndex, PoolSize(vK))
    /\ vI' = 0
    /\ vItems' = <<>>
    /\ vPc' = "hydrate"
    /\ UNCHANGED <<vQuestion, vK, vIndex, vRows, vResult>>
    /\ UNCHANGED <<chunkVars, boostVars, localVars, storeVars, reqVars, cloudVars, adminVars>>

\* The try block: `row = await getChunkById(...)`, `text = row.text || ''`,
\* `meta = row.meta ? JSON.parse(row.meta) : null`.  What text and meta hold when the
\* block is left, and whether it was left by an exception.  JSON.parse throws after
\* text was assigned.
TryBlock(row) ==
    IF row.kind = "throws" THEN [text |-> <<>>, meta |-> "null", thrown |-> TRUE]
    ELSE IF row.kind = "none" THEN [text |-> <<>>, meta |-> "null", thrown |-> FALSE]
    ELSE IF row.meta = "bad" THEN [text |-> row.text, meta |-> "null", thrown |-> TRUE]
    ELSE [text |-> row.text,
          meta |-> IF row.meta = "json" THEN "object" ELSE "null",
          thrown |-> FALSE]

\* `catch (_) { /* ignore */ }`: does the exception leave the loop?
Escapes(t) == FALSE

\* the item pushed for matches[i] (i is 0-based, as in the loop)
HydratedItem(question, m, t, i) ==
    [ref   |-> i + 1,
     score |-> Fixed4(Fixed4(m.score) + keywordBoost(question, t.text)),
     id    |-> m.id,
     text  |-> t.text,
     meta  |-> t.meta]

\* one turn of the loop over matches: the try/catch and the push
VHydrate ==
    /\ vPc = "hydrate"
    /\ vI < Len(vMatches)
    /\ LET m == vMatches[vI + 1]
           t == TryBlock(vRows[m.id])
       IN IF Escapes(t)
          THEN /\ vPc' = "failed"
               /\ UNCHANGED <<vI, vItems>>
          ELSE /\ vItems' = Append(vItems, HydratedItem(vQuestion, m, t, vI))
               /\ vI' = vI + 1
               /\ vPc' = vPc
    /\ UNCHANGED <<vQuestion, vK, vIndex, vRows, vTopK, vMatches, vResult>>
    /\ UNCHANGED <<chunkVars, boostVars, localVars, storeVars, reqVars, cloudVars, adminVars>>

\* `it.text && it.text.trim().length > 0`
NotBlank(it) == it.text # <<>> /\ Len(Trim(it.text)) > 0

\* a variant that cuts to k before it sorts
RerankCutFirst(items, k) == SortByScoreDesc(Slice0(SelectSeq(items, NotBlank), k))

\* `items.filter(...).sort((a, b) => b.score - a.score).slice(0, k)`
Rerank(items, k) == Slice0(SortByScoreDesc(SelectSeq(items, NotBlank)), k)

\* the loop is over: re-sort, drop blanks, return k
VFinish ==
    /\ vPc = "hydrate"
    /\ vI = Len(vMatches)
    /\ vResult' = Rerank(vItems, vK)
    /\ vPc' = "done"
    /\ UNCHANGED <<vQuestion, vK, vIndex, vRows, vTopK, vMatches, vI, vItems>>
    /\ UNCHANGED <<chunkVars, boostVars, localVars, storeVars, reqVars, cloudVars, adminVars>>


----------------------------------------------------------------------------
(* Local store: MEMORY, NEXT_ID and memory.json *)

MaxAddCalls == 2
AddCalls == 1..MaxAddCalls

\* the chunks each call of addTextChunks is given: the first call two, the others one
ChunksOfCall(c) == IF c = 1 THEN << <<"a">>, <<"b">> >> ELSE << <<"a">> >>

\* `embedFunc(chunk)` returns a vector
EmbeddingOf(chunk) == <<1, 0>>

\* no data/memory.json
NoFile == [exists |-> FALSE, nextId |-> 0, items |-> <<>>]

\* an item { id, text, embedding } of a payload
PayloadItem(id) == [id |-> id, text |-> <<"b">>, embedding |-> <<1, 1>>]

\* { nextId, items } as /import receives them and as loadMemory reads them from a
\* file it did not write: the item ids are pairwise distinct; nextId may be absent
\* (written 0), and need not be beyond the ids
Payloads == {
    [exists |-> TRUE, nextId |-> 3, items |-> <<PayloadItem(1), PayloadItem(2)>>],
    [exists |-> TRUE, nextId |-> 0, items |-> <<PayloadItem(1), PayloadItem(2)>>],
    [exists |-> TRUE, nextId |-> 0, items |-> <<PayloadItem(2), PayloadItem(1)>>],
    [exists |-> TRUE, nextId |-> 1, items |-> <<PayloadItem(1)>>],
    [exists |-> TRUE, nextId |-> 0, items |-> <<>>] }

\* `nextId || (MEMORY.at(-1)?.id ?? 0) + 1`
NextIdAfter(nextId, items) ==
    IF nextId # 0 THEN nextId
    ELSE IF items = <<>> THEN 1 ELSE items[Len(items)].id + 1

\* `{ nextId: NEXT_ID, items: MEMORY }` written to memory.json
Snapshot == [exists |-> TRUE, nextId |-> NEXT_ID, items |-> MEMORY]

\* a variant that pushes the item before the embedder has returned and leaves the
\* embedding to be filled in later
AddStartPushFirst(c) ==
    /\ addPc[c] = "idle"
    /\ addPc' = [addPc EXCEPT ![c] = "embed"]
    /\ MEMORY' = Append(MEMORY, [id |-> NEXT_ID, text |-> ChunksOfCall(c)[1],
                                  embedding |-> <<>>])
    /\ UNCHANGED <<NEXT_ID, DISK, savePending, addI, loadPc, loadBuf, assigned>>
    /\ UNCHANGED <<askPc, askQVec, askK, askRanked, askResult>>
    /\ UNCHANGED <<chunkVars, boostVars, vecVars, reqVars, cloudVars, adminVars>>

\* a call addTextChunks(chunks, embed) starts: the first `await embedFunc(chunk)`
AddStart(c) ==
    /\ addPc[c] = "idle"
    /\ addPc' = [addPc EXCEPT ![c] = "embed"]
    /\ UNCHANGED <<MEMORY, NEXT_ID, DISK, savePending, addI, loadPc, loadBuf, assigned>>
    /\ UNCHANGED <<askPc, askQVec, askK, askRanked, askResult>>
    /\ UNCHANGED <<chunkVars, boostVars, vecVars, reqVars, cloudVars, adminVars>>

\* the embedder returns: `MEMORY.push({ id: NEXT_ID++, text: chunk, embedding: e })`,
\* then the next await: embed of the next chunk, or saveMemory
AddEmbedReturn(c) ==
    /\ addPc[c] = "embed"
    /\ LET chunk == ChunksOfCall(c)[addI[c] + 1]
       IN /\ MEMORY' = Append(MEMORY, [id |-> NEXT_ID, text |-> chunk,
                                        embedding |-> EmbeddingOf(chunk)])
          /\ assigned' = assigned \cup {<<NEXT_ID, <<c, addI[c] + 1>>>>}
    /\ NEXT_ID' = NEXT_ID + 1
    /\ addI' = [addI EXCEPT ![c] = addI[c] + 1]
    /\ addPc' = [addPc EXCEPT ![c] =
                    IF addI[c] + 1 = Len(ChunksOfCall(c)) THEN "save" ELSE "embed"]
    /\ UNCHANGED <<DISK, savePending, loadPc, loadBuf>>
    /\ UNCHANGED <<askPc, askQVec, askK, askRanked, askResult>>
    /\ UNCHANGED <<chunkVars, boostVars, vecVars, reqVars, cloudVars, adminVars>>

\* the embedder throws: addTextChunks rejects, what it pushed stays, nothing is saved
AddEmbedFail(c) ==
    /\ addPc[c] = "embed"
    /\ addPc' = [addPc EXCEPT ![c] = "failed"]
    /\ UNCHANGED <<MEMORY, NEXT_ID, DISK, savePending, addI, loadPc, loadBuf, assigned>>
    /\ UNCHANGED <<askPc, askQVec, askK, askRanked, askResult>>
    /\ UNCHANGED <<chunkVars, boostVars, vecVars, reqVars, cloudVars, adminVars>>

\* `await saveMemory()` at the end of addTextChunks: the payload is built when
\* writeFile is called
AddSave(c) ==
    /\ addPc[c] = "save"
    /\ DISK' = Snapshot
    /\ addPc' = [addPc EXCEPT ![c] = "done"]
    /\ UNCHANGED <<MEMORY, NEXT_ID, savePending, addI, loadPc, loadBuf, assigned>>
    /\ UNCHANGED <<askPc, askQVec, askK, askRanked, askResult>>
    /\ UNCHANGED <<chunkVars, boostVars, vecVars, reqVars, cloudVars, adminVars>>

\* clearMemory(), called by POST /clear, which then awaits saveMemory()
ClearMemory ==
    /\ MEMORY' = <<>>
    /\ NEXT_ID' = 1
    /\ savePending' = TRUE
    /\ UNCHANGED <<DISK, addPc, addI, loadPc, loadBuf, assigned>>
    /\ UNCHANGED <<askPc, askQVec, askK, askRanked, askResult>>
    /\ UNCHANGED <<chunkVars, boostVars, vecVars, reqVars, cloudVars, adminVars>>

\* importMemory(nextId, items), called by POST /import, which then awaits saveMemory()
ImportMemory ==
    /\ \E p \in Payloads :
          /\ MEMORY' = p.items
          /\ NEXT_ID' = NextIdAfter(p.nextId, p.items)
    /\ savePending' = TRUE
    /\ UNCHANGED <<DISK, addPc, addI, loadPc, loadBuf, assigned>>
    /\ UNCHANGED <<askPc, askQVec, askK, askRanked, askResult>>
    /\ UNCHANGED <<chunkVars, boostVars, vecVars, reqVars, cloudVars, adminVars>>

\* the saveMemory() a handler awaits after clearMemory or importMemory
SaveMemory ==
    /\ savePending
    /\ DISK' = Snapshot
    /\ savePending' = FALSE
    /\ UNCHANGED <<MEMORY, NEXT_ID, addPc, addI, loadPc, loadBuf, assigned>>
    /\ UNCHANGED <<askPc, askQVec, askK, askRanked, askResult>>
    /\ UNCHANGED <<chunkVars, boostVars, vecVars, reqVars, cloudVars, adminVars>>

\* loadMemory(): `await fs.readFile(DATA_FILE)`; a missing file throws into the
\* empty catch and the call is over
LoadRead ==
    /\ loadPc = "idle"
    /\ IF DISK.exists THEN loadPc' = "read" /\ loadBuf' = DISK
                      ELSE loadPc' = "idle" /\ loadBuf' = loadBuf
    /\ UNCHANGED <<MEMORY, NEXT_ID, DISK, savePending, addPc, addI, assigned>>
    /\ UNCHANGED <<askPc, askQVec, askK, askRanked, askResult>>
    /\ UNCHANGED <<chunkVars, boostVars, vecVars, reqVars, cloudVars, adminVars>>

\* loadMemory() after the read: MEMORY and NEXT_ID are replaced by the file's
LoadApply ==
    /\ loadPc = "read"
    /\ MEMORY' = loadBuf.items
    /\ NEXT_ID' = NextIdAfter(loadBuf.nextId, loadBuf.items)
    /\ loadPc' = "idle"
    /\ loadBuf' = NoFile
    /\ UNCHANGED <<DISK, savePending, addPc, addI, assigned>>
    /\ UNCHANGED <<askPc, askQVec, askK, askRanked, askResult>>
    /\ UNCHANGED <<chunkVars, boostVars, vecVars, reqVars, cloudVars, adminVars>>

----------------------------------------------------------------------------
(* GET /ask: the Express handler (local mode) and the Hono handler (index mode) *)

DecimalDigits == <<"0","1","2","3","4","5","6","7","8","9">>

DigitValue(c) == (CHOOSE d \in 1..10 : DecimalDigits[d] = c) - 1

\* the number of decimal digits s starts with
RECURSIVE LeadingDigits(_)
LeadingDigits(s) ==
    IF s = <<>> \/ Head(s) \notin Digits THEN 0 ELSE 1 + LeadingDigits(Tail(s))

\* the value of a sequence of decimal digits
RECURSIVE DecimalValue(_, _)
DecimalValue(s, acc) ==
    IF s = <<>> THEN acc ELSE DecimalValue(Tail(s), 10 * acc + DigitValue(Head(s)))

\* parseInt(s): leading whitespace is skipped, then a sign, then the decimal digits;
\* what follows them is ignored; NaN without a digit.  (A 0x prefix is not modelled;
\* no input has one.)
ParseInt(s) ==
    LET t == TrimStart(s)
        signed == t # <<>> /\ Head(t) \in {"-", "+"}
        u == IF signed THEN Tail(t) ELSE t
        n == LeadingDigits(u)
        v == DecimalValue(SubSeq(u, 1, n), 0)
    IN IF n = 0 THEN [nan |-> TRUE, val |-> 0]
       ELSE [nan |-> FALSE, val |-> IF signed /\ Head(t) = "-" THEN -v ELSE v]

\* `parseInt(k) || 4`: NaN and 0 are falsy
DefaultK == 4
LowestK == 1
HighestK == 8

\* `Math.max(1, Math.min(8, parseInt(req.query.k) || 4))`
KForRetrieval(param) ==
    LET p == ParseInt(param)
        v == IF p.nan \/ p.val = 0 THEN DefaultK ELSE p.val
    IN Max(LowestK, Min(HighestK, v))

\* an absent parameter is undefined, which parseInt reads as the string "undefined"
Absent == <<"u","n","d","e","f","i","n","e","d">>

KParams == {
    Absent, <<>>, <<"a","b","c">>, <<"0">>, <<"1">>, <<"4">>, <<"8">>, <<"9">>,
    <<"1","2">>, <<"-","3">>, <<"3",".","7">>, <<"5","x">>, <<" ","7">>, <<"+","2">>,
    <<"-","0">> }

\* what `embed(q)` returns for the question
QVec == <<1, 0>>

\* MEMORY when the request arrives
AskCorpora == {
    <<>>,
    <<[id |-> 1, text |-> <<"a">>, embedding |-> <<1, 0>>]>>,
    <<[id |-> 1, text |-> <<"a">>, embedding |-> <<0, 1>>],
      [id |-> 2, text |-> <<"b">>, embedding |-> <<1, 1>>]>> }

MaxAskIndex == 2

\* the rows getChunkById finds for the ids of the index
AskRows == { Row(PlainText, "json"), Row(RichText, "json"), Row(BlankText, "json"),
             NoRow, LookupThrows }

\* topKByVectorize(env, question, k) once the question is embedded: the index query,
\* the hydration loop and the re-rank
VectorizeTop(question, k, index, rows) ==
    LET matches == Slice0(index, PoolSize(k))
        items == [i \in 1..Len(matches) |->
                    HydratedItem(question, matches[i], TryBlock(rows[matches[i].id]), i - 1)]
    IN Rerank(items, k)

\* what a generator call comes back with: an answer, an empty answer, an answer that
\* says "I don't know", or an exception
GenOutcomes == {"text", "blank", "idk", "throws"}

\* a variant that calls the embedder a second time before it gives up
OnEmbedFailureRetry(calls) ==
    IF calls < 2 THEN [pc |-> "embed", status |-> 0, calls |-> calls + 1]
    ELSE [pc |-> "done", status |-> 500, calls |-> calls]

\* the embedder threw or returned no array: the exception reaches the handler's catch,
\* `res.status(500)` / `c.json({ ok: false, ... }, 500)`
OnEmbedFailure(calls) == [pc |-> "done", status |-> 500, calls |-> calls]

\* the handler up to its first await: q, k, the 400 answers, then embed is called
RqBegin ==
    /\ rqPc = "new"
    /\ rqK' = KForRetrieval(rqKParam)
    /\ IF Trim(rqQ) = <<>> \/ (rqMode = "express" /\ Len(MEMORY) = 0)
          THEN /\ rqStatus' = 400
               /\ rqPc' = "done"
               /\ rqEmbedCalls' = rqEmbedCalls
          ELSE /\ rqStatus' = rqStatus
               /\ rqPc' = "embed"
               /\ rqEmbedCalls' = rqEmbedCalls + 1
    /\ UNCHANGED <<rqMode, rqQ, rqKParam, rqOpenAi, rqChunks, rqAnswer, rqEmbedFailed,
                   rqSourceQueries, rqGenCalls, rqGenContext>>
    /\ UNCHANGED <<chunkVars, boostVars, localVars, vecVars, storeVars, cloudVars, adminVars>>

\* the embedder fails
RqEmbedFail ==
    /\ rqPc = "embed"
    /\ rqEmbedFailed' = TRUE
    /\ LET o == OnEmbedFailure(rqEmbedCalls)
       IN /\ rqPc' = o.pc
          /\ rqStatus' = o.status
          /\ rqEmbedCalls' = o.calls
    /\ UNCHANGED <<rqMode, rqQ, rqKParam, rqOpenAi, rqK, rqChunks, rqAnswer,
                   rqSourceQueries, rqGenCalls, rqGenContext>>
    /\ UNCHANGED <<chunkVars, boostVars, localVars, vecVars, storeVars, cloudVars, adminVars>>

\* the embedder returns a vector.  Express: topKByCosine(qVec, k), the context, and
\* the first generator is called.  Hono: VECTOR_INDEX.query is called.
RqEmbedReturn ==
    /\ rqPc = "embed"
    /\ rqSourceQueries' = rqSourceQueries + 1
    /\ IF rqMode = "express"
          THEN /\ rqChunks' = topKByCosine(MEMORY, QVec, rqK)
               /\ MEMORY' = MemoryAfterTopK(MEMORY, QVec)
               /\ rqGenContext' = topKByCosine(MEMORY, QVec, rqK)
               /\ rqGenCalls' = rqGenCalls + 1
               /\ rqPc' = IF rqOpenAi THEN "openai" ELSE "ollama"
          ELSE /\ rqPc' = "query"
               /\ UNCHANGED <<MEMORY, rqChunks, rqGenContext, rqGenCalls>>
    /\ UNCHANGED <<rqMode, rqQ, rqKParam, rqOpenAi, rqK, rqStatus, rqAnswer,
                   rqEmbedCalls, rqEmbedFailed>>
    /\ UNCHANGED <<NEXT_ID, askPc, askQVec, askK, askRanked, askResult>>
    /\ UNCHANGED <<chunkVars, boostVars, vecVars, storeVars, cloudVars, adminVars>>

\* Hono: the index query throws
RqQueryFail ==
    /\ rqPc = "query"
    /\ rqStatus' = 500
    /\ rqPc' = "done"
    /\ UNCHANGED <<rqMode, rqQ, rqKParam, rqOpenAi, rqK, rqChunks, rqAnswer, rqEmbedCalls,
                   rqEmbedFailed, rqSourceQueries, rqGenCalls, rqGenContext>>
    /\ UNCHANGED <<chunkVars, boostVars, localVars, vecVars, storeVars, cloudVars, adminVars>>

\* Hono: topKByVectorize returns `top`; without candidates the answer is the sentinel,
\* otherwise answerWithWorkersAI is called with the context
RqQueryReturn ==
    /\ rqPc = "query"
    /\ LET top == VectorizeTop(Trim(rqQ), rqK, vIndex, vRows)
       IN /\ rqChunks' = top
          /\ IF Len(top) = 0
                THEN /\ rqAnswer' = "sentinel"
                     /\ rqStatus' = 200
                     /\ rqPc' = "done"
                     /\ UNCHANGED <<rqGenCalls, rqGenContext>>
                ELSE /\ rqGenCalls' = rqGenCalls + 1
                     /\ rqGenContext' = top
                     /\ rqPc' = "generate"
                     /\ UNCHANGED <<rqAnswer, rqStatus>>
    /\ UNCHANGED <<rqMode, rqQ, rqKParam, rqOpenAi, rqK, rqEmbedCalls, rqEmbedFailed,
                   rqSourceQueries>>
    /\ UNCHANGED <<chunkVars, boostVars, localVars, vecVars, storeVars, cloudVars, adminVars>>

\* Hono: answerWithWorkersAI returns (it catches its own exceptions and returns '');
\* a blank or "I don't know" answer is replaced by a snippet of the first chunk
RqGenerateReturn ==
    /\ rqPc = "generate"
    /\ \E o \in GenOutcomes : rqAnswer' = IF o = "text" THEN "generated" ELSE "snippet"
    /\ rqStatus' = 200
    /\ rqPc' = "done"
    /\ UNCHANGED <<rqMode, rqQ, rqKParam, rqOpenAi, rqK, rqChunks, rqEmbedCalls,
                   rqEmbedFailed, rqSourceQueries, rqGenCalls, rqGenContext>>
    /\ UNCHANGED <<chunkVars, boostVars, localVars, vecVars, storeVars, cloudVars, adminVars>>

\* Express: openai.responses.create returns or throws; without an answer
\* generateWithOllama is called
RqOpenAiReturn ==
    /\ rqPc = "openai"
    /\ \E o \in GenOutcomes :
          IF o \in {"text", "idk"}
             THEN /\ rqAnswer' = "generated"
                  /\ rqStatus' = 200
                  /\ rqPc' = "done"
                  /\ rqGenCalls' = rqGenCalls
             ELSE /\ rqGenCalls' = rqGenCalls + 1
                  /\ rqPc' = "ollama"
                  /\ UNCHANGED <<rqAnswer, rqStatus>>
    /\ UNCHANGED <<rqMode, rqQ, rqKParam, rqOpenAi, rqK, rqChunks, rqEmbedCalls,
                   rqEmbedFailed, rqSourceQueries, rqGenContext>>
    /\ UNCHANGED <<chunkVars, boostVars, localVars, vecVars, storeVars, cloudVars, adminVars>>

\* Express: generateWithOllama returns or throws; without an answer the chunks are
\* echoed (an empty string when there are none)
RqOllamaReturn ==
    /\ rqPc = "ollama"
    /\ \E o \in GenOutcomes :
          rqAnswer' = IF o \in {"text", "idk"} THEN "generated"
                      ELSE IF rqChunks = <<>> THEN "empty" ELSE "echo"
    /\ rqStatus' = 200
    /\ rqPc' = "done"
    /\ UNCHANGED <<rqMode, rqQ, rqKParam, rqOpenAi, rqK, rqChunks, rqEmbedCalls,
                   rqEmbedFailed, rqSourceQueries, rqGenCalls, rqGenContext>>
    /\ UNCHANGED <<chunkVars, boostVars, localVars, vecVars, storeVars, cloudVars, adminVars>>

----------------------------------------------------------------------------
(* Cloud mode: POST /ingest over the D1 chunks table and the vector index *)

MaxIngests == 2
Ingests == 1..MaxIngests

\* the chunks chunkText makes of a request's text (empty for a blank text); equal
\* texts have equal SHA-256 hashes, so a chunk's text stands for its hash
IngestParts == { <<>>, << <<"a">> >>, << <<"a">>, <<"b">> >>, << <<"b">>, <<"b">> >> }

\* `row` before the first insertChunk of a request has returned
NoIngestRow == [id |-> 0, inserted |-> FALSE]

\* the rows of the table whose hash is the chunk's
RowsWithHash(text) == {i \in 1..Len(D1) : D1[i].text = text}

\* the id an INTEGER PRIMARY KEY column gives a new row: one above the largest
NewRowId ==
    IF D1 = <<>> THEN 1
    ELSE 1 + (CHOOSE m \in {D1[i].id : i \in 1..Len(D1)} :
                 \A i \in 1..Len(D1) : D1[i].id <= m)

\* a variant without the gate: embed and upsert for every chunk
ShouldEmbedAlways(row) == TRUE

\* `if (row.inserted)`
ShouldEmbed(row) == row.inserted

\* the handler begins: the body is read, `if (!clean)` answers 400, else chunkText
\* and the first insertChunk, which awaits its SELECT
IgBegin(r) ==
    /\ igPc[r] = "idle"
    /\ \E parts \in IngestParts :
         /\ igParts' = [igParts EXCEPT ![r] = parts]
         /\ IF parts = <<>>
               THEN /\ igStatus' = [igStatus EXCEPT ![r] = 400]
                    /\ igPc' = [igPc EXCEPT ![r] = "done"]
                    /\ igI' = igI
               ELSE /\ igStatus' = igStatus
                    /\ igPc' = [igPc EXCEPT ![r] = "select"]
                    /\ igI' = [igI EXCEPT ![r] = 1]
    /\ igAfter' = [igAfter EXCEPT ![r] = {o \in Ingests : igPc[o] = "done"}]
    /\ UNCHANGED <<D1, VECTORS, igRow, igAdded, igLog>>
    /\ UNCHANGED <<chunkVars, boostVars, localVars, vecVars, storeVars, reqVars, adminVars>>

\* where the loop goes after the chunk at igI[r]: the next insertChunk, or the COUNT
AfterChunk(r) == IF igI[r] = Len(igParts[r]) THEN "count" ELSE "select"

\* insertChunk: `SELECT ... WHERE hash = ?` returns.  With a row insertChunk returns
\* { id, inserted: false } and the handler tests the gate; without one the INSERT
\* is issued.
IgSelect(r) ==
    /\ igPc[r] = "select"
    /\ LET text == igParts[r][igI[r]]
           found == RowsWithHash(text)
       IN IF found # {}
             THEN LET row == [id |-> D1[CHOOSE i \in found : \A j \in found : i <= j].id,
                              inserted |-> FALSE]
                  IN /\ igRow' = [igRow EXCEPT ![r] = row]
                     /\ igLog' = [igLog EXCEPT ![r] = Append(@,
                           [existed |-> TRUE, inserted |-> FALSE,
                            embed |-> ShouldEmbed(row), upsert |-> FALSE])]
                     /\ IF ShouldEmbed(row)
                           THEN igPc' = [igPc EXCEPT ![r] = "embed"] /\ igI' = igI
                           ELSE /\ igPc' = [igPc EXCEPT ![r] = AfterChunk(r)]
                                /\ igI' = [igI EXCEPT ![r] =
                                             IF AfterChunk(r) = "select" THEN @ + 1 ELSE @]
             ELSE /\ igLog' = [igLog EXCEPT ![r] = Append(@,
                        [existed |-> FALSE, inserted |-> FALSE,
                         embed |-> FALSE, upsert |-> FALSE])]
                  /\ igPc' = [igPc EXCEPT ![r] = "insert"]
                  /\ UNCHANGED <<igRow, igI>>
    /\ UNCHANGED <<D1, VECTORS, igParts, igAdded, igStatus, igAfter>>
    /\ UNCHANGED <<chunkVars, boostVars, localVars, vecVars, storeVars, reqVars, adminVars>>

\* insertChunk: `INSERT ... RETURNING` returns the new row, insertChunk returns
\* { id, inserted: true } and the handler tests the gate
IgInsert(r) ==
    /\ igPc[r] = "insert"
    /\ LET row == [id |-> NewRowId, inserted |-> TRUE]
       IN /\ D1' = Append(D1, [id |-> NewRowId, text |-> igParts[r][igI[r]]])
          /\ igRow' = [igRow EXCEPT ![r] = row]
          /\ igLog' = [igLog EXCEPT ![r] =
                [@ EXCEPT ![Len(@)] = [@ EXCEPT !.inserted = TRUE, !.embed = ShouldEmbed(row)]]]
          /\ IF ShouldEmbed(row)
                THEN igPc' = [igPc EXCEPT ![r] = "embed"] /\ igI' = igI
                ELSE /\ igPc' = [igPc EXCEPT ![r] = AfterChunk(r)]
                     /\ igI' = [igI EXCEPT ![r] = IF AfterChunk(r) = "select" THEN @ + 1 ELSE @]
    /\ UNCHANGED <<VECTORS, igParts, igAdded, igStatus, igAfter>>
    /\ UNCHANGED <<chunkVars, boostVars, localVars, vecVars, storeVars, reqVars, adminVars>>

\* a statement of the database fails (the INSERT also where the table forbids a
\* second row with the hash): the exception reaches the handler's catch, 500
IgDbFail(r) ==
    /\ igPc[r] \in {"select", "insert", "count"}
    /\ igStatus' = [igStatus EXCEPT ![r] = 500]
    /\ igPc' = [igPc EXCEPT ![r] = "done"]
    /\ UNCHANGED <<D1, VECTORS, igParts, igI, igRow, igAdded, igLog, igAfter>>
    /\ UNCHANGED <<chunkVars, boostVars, localVars, vecVars, storeVars, reqVars, adminVars>>

\* `embed(part, c.env)` returns: VECTOR_INDEX.upsert is called
IgEmbedReturn(r) ==
    /\ igPc[r] = "embed"
    /\ igLog' = [igLog EXCEPT ![r] = [@ EXCEPT ![Len(@)] = [@ EXCEPT !.upsert = TRUE]]]
    /\ igPc' = [igPc EXCEPT ![r] = "upsert"]
    /\ UNCHANGED <<D1, VECTORS, igParts, igI, igRow, igAdded, igStatus, igAfter>>
    /\ UNCHANGED <<chunkVars, boostVars, localVars, vecVars, storeVars, reqVars, adminVars>>

\* embed or upsert throws: 500
IgEmbedOrUpsertFail(r) ==
    /\ igPc[r] \in {"embed", "upsert"}
    /\ igStatus' = [igStatus EXCEPT ![r] = 500]
    /\ igPc' = [igPc EXCEPT ![r] = "done"]
    /\ UNCHANGED <<D1, VECTORS, igParts, igI, igRow, igAdded, igLog, igAfter>>
    /\ UNCHANGED <<chunkVars, boostVars, localVars, vecVars, storeVars, reqVars, adminVars>>

\* the upsert returns: `added++`, then the next chunk
IgUpsertReturn(r) ==
    /\ igPc[r] = "upsert"
    /\ VECTORS' = VECTORS \cup {igRow[r].id}
    /\ igAdded' = [igAdded EXCEPT ![r] = @ + 1]
    /\ igPc' = [igPc EXCEPT ![r] = AfterChunk(r)]
    /\ igI' = [igI EXCEPT ![r] = IF AfterChunk(r) = "select" THEN @ + 1 ELSE @]
    /\ UNCHANGED <<D1, igParts, igRow, igStatus, igLog, igAfter>>
    /\ UNCHANGED <<chunkVars, boostVars, localVars, vecVars, storeVars, reqVars, adminVars>>

\* `SELECT COUNT(*)` returns: { ok: true, chunksAdded: added, total }
IgCount(r) ==
    /\ igPc[r] = "count"
    /\ igStatus' = [igStatus EXCEPT ![r] = 200]
    /\ igPc' = [igPc EXCEPT ![r] = "done"]
    /\ UNCHANGED <<D1, VECTORS, igParts, igI, igRow, igAdded, igLog, igAfter>>
    /\ UNCHANGED <<chunkVars, boostVars, localVars, vecVars, storeVars, reqVars, adminVars>>

----------------------------------------------------------------------------
(* Cloud mode: DELETE /delete/:id, POST /clear, and a GET /ask after the delete *)

HexDigits == <<"0","1","2","3","4","5","6","7","8","9","a","b","c","d","e","f">>

HexValueOf(c) == (CHOOSE d \in 1..16 : HexDigits[d] = c) - 1

\* the value of a sequence of hexadecimal digits
RECURSIVE HexValue(_, _)
HexValue(s, acc) ==
    IF s = <<>> THEN acc ELSE HexValue(Tail(s), 16 * acc + HexValueOf(Head(s)))

\* Number(s) for a string: white space around the literal is dropped; the empty
\* string is 0; decimal digits are their value; 0x and hexadecimal digits are their
\* value; anything else is NaN.  (Signs, fractions, exponents and Infinity are not
\* modelled; no input has one.)
StringToNumber(s) ==
    LET t == Trim(s)
    IN IF t = <<>> THEN [finite |-> TRUE, value |-> 0]
       ELSE IF \A i \in 1..Len(t) : t[i] \in Range(DecimalDigits)
               THEN [finite |-> TRUE, value |-> DecimalValue(t, 0)]
       ELSE IF /\ Len(t) > 2 /\ t[1] = "0" /\ t[2] = "x"
               /\ \A i \in 3..Len(t) : t[i] \in Range(HexDigits)
               THEN [finite |-> TRUE, value |-> HexValue(SubSeq(t, 3, Len(t)), 0)]
       ELSE [finite |-> FALSE, value |-> 0]

\* the :id of the path as c.req.param('id') returns it (percent-decoded)
IdParams == { <<"1">>, <<"2">>, <<"a","b","c">>, <<" ">>, <<"0","x","1">> }

\* the ids of the rows of the table
RowIds(rows) == {rows[i].id : i \in 1..Len(rows)}

\* the rows that `DELETE FROM chunks WHERE id = ?` leaves
RECURSIVE WithoutId(_, _)
WithoutId(rows, id) ==
    IF rows = <<>> THEN <<>>
    ELSE IF Head(rows).id = id THEN WithoutId(Tail(rows), id)
         ELSE <<Head(rows)>> \o WithoutId(Tail(rows), id)

\* the elements of a finite set of numbers in ascending order
RECURSIVE Ascending(_)
Ascending(S) ==
    IF S = {} THEN <<>>
    ELSE LET m == CHOOSE x \in S : \A y \in S : x <= y
         IN <<m>> \o Ascending(S \ {m})

\* `const BATCH = 256`
BATCH == 256

\* DELETE /delete/:id begins: `Number(c.req.param('id'))`, 400 unless it is finite,
\* else deleteChunk is called and awaits its DELETE
DlBegin ==
    /\ dlPc = "idle"
    /\ \E param \in IdParams :
         LET id == StringToNumber(param)
         IN /\ dlParam' = param
            /\ dlId' = id.value
            /\ IF id.finite
                  THEN dlPc' = "db" /\ dlStatus' = dlStatus
                  ELSE dlPc' = "done" /\ dlStatus' = 400
    /\ UNCHANGED <<clPc, clIds, clI, clStatus, caPc, caMatches, caI, caItems, caTop>>
    /\ UNCHANGED <<chunkVars, boostVars, localVars, vecVars, storeVars, reqVars, cloudVars>>

\* deleteChunk returns: the rows with the id are gone; VECTOR_INDEX.deleteByIds is
\* called
DlDbReturn ==
    /\ dlPc = "db"
    /\ D1' = WithoutId(D1, dlId)
    /\ dlPc' = "index"
    /\ UNCHANGED <<VECTORS, igParts, igI, igPc, igRow, igAdded, igStatus, igLog, igAfter>>
    /\ UNCHANGED <<dlParam, dlId, dlStatus, clPc, clIds, clI, clStatus,
                   caPc, caMatches, caI, caItems, caTop>>
    /\ UNCHANGED <<chunkVars, boostVars, localVars, vecVars, storeVars, reqVars>>

\* deleteByIds returns: the vector with the id is gone; 204
DlIndexReturn ==
    /\ dlPc = "index"
    /\ VECTORS' = VECTORS \ {dlId}
    /\ dlStatus' = 204
    /\ dlPc' = "done"
    /\ UNCHANGED <<D1, igParts, igI, igPc, igRow, igAdded, igStatus, igLog, igAfter>>
    /\ UNCHANGED <<dlParam, dlId, clPc, clIds, clI, clStatus,
                   caPc, caMatches, caI, caItems, caTop>>
    /\ UNCHANGED <<chunkVars, boostVars, localVars, vecVars, storeVars, reqVars>>

\* deleteChunk or deleteByIds throws: the handler's catch answers 500
DlFail ==
    /\ dlPc \in {"db", "index"}
    /\ dlStatus' = 500
    /\ dlPc' = "done"
    /\ UNCHANGED <<dlParam, dlId, clPc, clIds, clI, clStatus,
                   caPc, caMatches, caI, caItems, caTop>>
    /\ UNCHANGED <<chunkVars, boostVars, localVars, vecVars, storeVars, reqVars, cloudVars>>

\* POST /clear begins: `SELECT id FROM chunks` is awaited
ClBegin ==
    /\ clPc = "idle"
    /\ clPc' = "select"
    /\ UNCHANGED <<dlParam, dlId, dlPc, dlStatus, clIds, clI, clStatus,
                   caPc, caMatches, caI, caItems, caTop>>
    /\ UNCHANGED <<chunkVars, boostVars, localVars, vecVars, storeVars, reqVars, cloudVars>>

\* where the batch loop goes with i: the next deleteByIds, or `DELETE FROM chunks`
AfterBatch(ids, i) == IF i < Len(ids) THEN "index" ELSE "db"

\* the SELECT returns the ids of the rows; the batch loop starts at i = 0
ClSelectReturn ==
    /\ clPc = "select"
    /\ LET ids == [i \in 1..Len(D1) |-> D1[i].id]
       IN /\ clIds' = ids
          /\ clI' = 0
          /\ clPc' = AfterBatch(ids, 0)
    /\ UNCHANGED <<dlParam, dlId, dlPc, dlStatus, clStatus,
                   caPc, caMatches, caI, caItems, caTop>>
    /\ UNCHANGED <<chunkVars, boostVars, localVars, vecVars, storeVars, reqVars, cloudVars>>

\* deleteByIds(ids.slice(i, i + BATCH)) returns: `i += BATCH`
ClIndexReturn ==
    /\ clPc = "index"
    /\ VECTORS' = VECTORS \ Range(SubSeq(clIds, clI + 1, Min(clI + BATCH, Len(clIds))))
    /\ clI' = clI + BATCH
    /\ clPc' = AfterBatch(clIds, clI + BATCH)
    /\ UNCHANGED <<D1, igParts, igI, igPc, igRow, igAdded, igStatus, igLog, igAfter>>
    /\ UNCHANGED <<dlParam, dlId, dlPc, dlStatus, clIds, clStatus,
                   caPc, caMatches, caI, caItems, caTop>>
    /\ UNCHANGED <<chunkVars, boostVars, localVars, vecVars, storeVars, reqVars>>

\* `DELETE FROM chunks` returns: every row is gone; 204
ClDbReturn ==
    /\ clPc = "db"
    /\ D1' = <<>>
    /\ clStatus' = 204
    /\ clPc' = "done"
    /\ UNCHANGED <<VECTORS, igParts, igI, igPc, igRow, igAdded, igStatus, igLog, igAfter>>
    /\ UNCHANGED <<dlParam, dlId, dlPc, dlStatus, clIds, clI,
                   caPc, caMatches, caI, caItems, caTop>>
    /\ UNCHANGED <<chunkVars, boostVars, localVars, vecVars, storeVars, reqVars>>

\* the SELECT, a deleteByIds or the DELETE throws: 500
ClFail ==
    /\ clPc \in {"select", "index", "db"}
    /\ clStatus' = 500
    /\ clPc' = "done"
    /\ UNCHANGED <<dlParam, dlId, dlPc, dlStatus, clIds, clI,
                   caPc, caMatches, caI, caItems, caTop>>
    /\ UNCHANGED <<chunkVars, boostVars, localVars, vecVars, storeVars, reqVars, cloudVars>>

\* a GET /ask arrives after the delete has answered 204: topKByVectorize embeds the
\* question and awaits VECTOR_INDEX.query
CaBegin ==
    /\ caPc = "idle"
    /\ dlPc = "done" /\ dlStatus = 204
    /\ caPc' = "query"
    /\ UNCHANGED <<dlParam, dlId, dlPc, dlStatus, clPc, clIds, clI, clStatus,
                   caMatches, caI, caItems, caTop>>
    /\ UNCHANGED <<chunkVars, boostVars, localVars, vecVars, storeVars, reqVars, cloudVars>>

\* the query returns the ids of up to max(k, 12) vectors, k being the default
CaQueryReturn ==
    /\ caPc = "query"
    /\ caMatches' = Slice0(Ascending(VECTORS), PoolSize(DefaultK))
    /\ caI' = 0
    /\ caItems' = <<>>
    /\ caPc' = IF VECTORS = {} THEN "done" ELSE "hydrate"
    /\ caTop' = <<>>
    /\ UNCHANGED <<dlParam, dlId, dlPc, dlStatus, clPc, clIds, clI, clStatus>>
    /\ UNCHANGED <<chunkVars, boostVars, localVars, vecVars, storeVars, reqVars, cloudVars>>

\* getChunkById(env, id) returns for the match at caI: the row's text, or '' without
\* a row; after the last match the items with a text are cut to k
CaHydrate ==
    /\ caPc = "hydrate"
    /\ LET id == caMatches[caI + 1]
           found == {i \in 1..Len(D1) : D1[i].id = id}
           text == IF found = {} THEN <<>> ELSE D1[CHOOSE i \in found : TRUE].text
           items == Append(caItems, [id |-> id, text |-> text])
       IN /\ caItems' = items
          /\ caI' = caI + 1
          /\ IF caI + 1 = Len(caMatches)
                THEN /\ caTop' = Slice0(SelectSeq(items, LAMBDA it : Trim(it.text) # <<>>),
                                        DefaultK)
                     /\ caPc' = "done"
                ELSE /\ caTop' = caTop
                     /\ caPc' = "hydrate"
    /\ UNCHANGED <<dlParam, dlId, dlPc, dlStatus, clPc, clIds, clI, clStatus, caMatches>>
    /\ UNCHANGED <<chunkVars, boostVars, localVars, vecVars, storeVars, reqVars, cloudVars>>

----------------------------------------------------------------------------
(* Specifications: one per component; the variables of the others stay idle *)

ChunkInit ==
    \* chunkText(text, chunkSize, overlap): `const chunks = []; let i = 0;`
    /\ ctText \in SeqsUpTo(ChunkAlphabet, MaxTextLen)
    /\ ctSize \in 1..MaxChunkSize
    /\ ctOverlap \in 0..MaxOverlap
    /\ ctI = 0 /\ ctPrev = -1 /\ ctChunks = <<>> /\ ctWindows = <<>> /\ ctPc = "loop"
    /\ kbQ = <<>> /\ kbText = <<>> /\ kbPc = "idle" /\ kbResult = 0
    /\ MEMORY = <<>> /\ NEXT_ID = 1
    /\ askPc = "idle" /\ askQVec = <<>> /\ askK = 0 /\ askRanked = <<>> /\ askResult = <<>>
    /\ vQuestion = <<>> /\ vK = 0 /\ vIndex = <<>> /\ vRows = <<>> /\ vPc = "idle"
    /\ vTopK = 0 /\ vMatches = <<>> /\ vI = 0 /\ vItems = <<>> /\ vResult = <<>>
    /\ DISK = NoFile /\ savePending = FALSE /\ loadPc = "idle" /\ loadBuf = NoFile
    /\ addPc = [c \in AddCalls |-> "idle"] /\ addI = [c \in AddCalls |-> 0]
    /\ assigned = {}
    /\ rqMode = "none" /\ rqQ = <<>> /\ rqKParam = <<>> /\ rqOpenAi = FALSE /\ rqK = 0
    /\ rqPc = "idle" /\ rqStatus = 0 /\ rqChunks = <<>> /\ rqAnswer = "none"
    /\ rqEmbedCalls = 0 /\ rqEmbedFailed = FALSE /\ rqSourceQueries = 0
    /\ rqGenCalls = 0 /\ rqGenContext = <<>>
    /\ D1 = <<>> /\ VECTORS = {} /\ igParts = [r \in Ingests |-> <<>>]
    /\ igI = [r \in Ingests |-> 0] /\ igPc = [r \in Ingests |-> "idle"]
    /\ igRow = [r \in Ingests |-> NoIngestRow] /\ igAdded = [r \in Ingests |-> 0]
    /\ igStatus = [r \in Ingests |-> 0] /\ igLog = [r \in Ingests |-> <<>>]
    /\ igAfter = [r \in Ingests |-> {}]
    /\ dlParam = <<>> /\ dlId = 0 /\ dlPc = "idle" /\ dlStatus = 0
    /\ clPc = "idle" /\ clIds = <<>> /\ clI = 0 /\ clStatus = 0
    /\ caPc = "idle" /\ caMatches = <<>> /\ caI = 0 /\ caItems = <<>> /\ caTop = <<>>

ChunkNext == ChunkExit \/ ChunkStep
SpecChunk == ChunkInit /\ [][ChunkNext]_vars

BoostInit ==
    /\ ctText = <<>> /\ ctSize = 1 /\ ctOverlap = 0 /\ ctI = 0 /\ ctPrev = -1
    /\ ctChunks = <<>> /\ ctWindows = <<>> /\ ctPc = "idle"
    /\ kbQ \in BoostQueries
    /\ kbText \in BoostTexts
    /\ kbPc = "call" /\ kbResult = 0
    /\ MEMORY = <<>> /\ NEXT_ID = 1
    /\ askPc = "idle" /\ askQVec = <<>> /\ askK = 0 /\ askRanked = <<>> /\ askResult = <<>>
    /\ vQuestion = <<>> /\ vK = 0 /\ vIndex = <<>> /\ vRows = <<>> /\ vPc = "idle"
    /\ vTopK = 0 /\ vMatches = <<>> /\ vI = 0 /\ vItems = <<>> /\ vResult = <<>>
    /\ DISK = NoFile /\ savePending = FALSE /\ loadPc = "idle" /\ loadBuf = NoFile
    /\ addPc = [c \in AddCalls |-> "idle"] /\ addI = [c \in AddCalls |-> 0]
    /\ assigned = {}
    /\ rqMode = "none" /\ rqQ = <<>> /\ rqKParam = <<>> /\ rqOpenAi = FALSE /\ rqK = 0
    /\ rqPc = "idle" /\ rqStatus = 0 /\ rqChunks = <<>> /\ rqAnswer = "none"
    /\ rqEmbedCalls = 0 /\ rqEmbedFailed = FALSE /\ rqSourceQueries = 0
    /\ rqGenCalls = 0 /\ rqGenContext = <<>>
    /\ D1 = <<>> /\ VECTORS = {} /\ igParts = [r \in Ingests |-> <<>>]
    /\ igI = [r \in Ingests |-> 0] /\ igPc = [r \in Ingests |-> "idle"]
    /\ igRow = [r \in Ingests |-> NoIngestRow] /\ igAdded = [r \in Ingests |-> 0]
    /\ igStatus = [r \in Ingests |-> 0] /\ igLog = [r \in Ingests |-> <<>>]
    /\ igAfter = [r \in Ingests |-> {}]
    /\ dlParam = <<>> /\ dlId = 0 /\ dlPc = "idle" /\ dlStatus = 0
    /\ clPc = "idle" /\ clIds = <<>> /\ clI = 0 /\ clStatus = 0
    /\ caPc = "idle" /\ caMatches = <<>> /\ caI = 0 /\ caItems = <<>> /\ caTop = <<>>

BoostNext == KeywordBoostCall
SpecBoost == BoostInit /\ [][BoostNext]_vars

RankInit ==
    /\ ctText = <<>> /\ ctSize = 1 /\ ctOverlap = 0 /\ ctI = 0 /\ ctPrev = -1
    /\ ctChunks = <<>> /\ ctWindows = <<>> /\ ctPc = "idle"
    /\ kbQ = <<>> /\ kbText = <<>> /\ kbPc = "idle" /\ kbResult = 0
    \* MEMORY as addTextChunks / importMemory leave it: ids 1..n, NEXT_ID = n + 1
    /\ \E n \in 0..MaxMem :
         \E texts \in TextPatterns(n), embs \in [1..n -> StoredVectors] :
            /\ MEMORY = [i \in 1..n |-> [id |-> i, text |-> texts[i], embedding |-> embs[i]]]
            /\ NEXT_ID = n + 1
    /\ askPc = "idle" /\ askQVec = <<>> /\ askK = 0 /\ askRanked = <<>> /\ askResult = <<>>
    /\ vQuestion = <<>> /\ vK = 0 /\ vIndex = <<>> /\ vRows = <<>> /\ vPc = "idle"
    /\ vTopK = 0 /\ vMatches = <<>> /\ vI = 0 /\ vItems = <<>> /\ vResult = <<>>
    /\ DISK = NoFile /\ savePending = FALSE /\ loadPc = "idle" /\ loadBuf = NoFile
    /\ addPc = [c \in AddCalls |-> "idle"] /\ addI = [c \in AddCalls |-> 0]
    /\ assigned = {}
    /\ rqMode = "none" /\ rqQ = <<>> /\ rqKParam = <<>> /\ rqOpenAi = FALSE /\ rqK = 0
    /\ rqPc = "idle" /\ rqStatus = 0 /\ rqChunks = <<>> /\ rqAnswer = "none"
    /\ rqEmbedCalls = 0 /\ rqEmbedFailed = FALSE /\ rqSourceQueries = 0
    /\ rqGenCalls = 0 /\ rqGenContext = <<>>
    /\ D1 = <<>> /\ VECTORS = {} /\ igParts = [r \in Ingests |-> <<>>]
    /\ igI = [r \in Ingests |-> 0] /\ igPc = [r \in Ingests |-> "idle"]
    /\ igRow = [r \in Ingests |-> NoIngestRow] /\ igAdded = [r \in Ingests |-> 0]
    /\ igStatus = [r \in Ingests |-> 0] /\ igLog = [r \in Ingests |-> <<>>]
    /\ igAfter = [r \in Ingests |-> {}]
    /\ dlParam = <<>> /\ dlId = 0 /\ dlPc = "idle" /\ dlStatus = 0
    /\ clPc = "idle" /\ clIds = <<>> /\ clI = 0 /\ clStatus = 0
    /\ caPc = "idle" /\ caMatches = <<>> /\ caI = 0 /\ caItems = <<>> /\ caTop = <<>>

RankNext == AskStart \/ AskRank
SpecRank == RankInit /\ [][RankNext]_vars

VecInit ==
    /\ ctText = <<>> /\ ctSize = 1 /\ ctOverlap = 0 /\ ctI = 0 /\ ctPrev = -1
    /\ ctChunks = <<>> /\ ctWindows = <<>> /\ ctPc = "idle"
    /\ kbQ = <<>> /\ kbText = <<>> /\ kbPc = "idle" /\ kbResult = 0
    /\ MEMORY = <<>> /\ NEXT_ID = 1
    /\ askPc = "idle" /\ askQVec = <<>> /\ askK = 0 /\ askRanked = <<>> /\ askResult = <<>>
    \* the index holds n vectors (ids 1..n, raw scores non-increasing); the rows are
    \* a background row everywhere but in at most one position
    /\ vQuestion \in Questions
    /\ vK \in 1..MaxK
    /\ \E n \in 0..MaxIndex, bg \in Backgrounds :
         \E S \in SpecialSets(n) :
            \E f \in [S -> Variants] :
               LET v(i) == IF i \in S THEN f[i] ELSE bg
               IN /\ vIndex = [i \in 1..n |-> [id |-> i, score |-> BaseScore(i) + v(i).delta]]
                  /\ vRows  = [i \in 1..n |-> v(i).row]
    /\ vPc = "start"
    /\ vTopK = 0 /\ vMatches = <<>> /\ vI = 0 /\ vItems = <<>> /\ vResult = <<>>
    /\ DISK = NoFile /\ savePending = FALSE /\ loadPc = "idle" /\ loadBuf = NoFile
    /\ addPc = [c \in AddCalls |-> "idle"] /\ addI = [c \in AddCalls |-> 0]
    /\ assigned = {}
    /\ rqMode = "none" /\ rqQ = <<>> /\ rqKParam = <<>> /\ rqOpenAi = FALSE /\ rqK = 0
    /\ rqPc = "idle" /\ rqStatus = 0 /\ rqChunks = <<>> /\ rqAnswer = "none"
    /\ rqEmbedCalls = 0 /\ rqEmbedFailed = FALSE /\ rqSourceQueries = 0
    /\ rqGenCalls = 0 /\ rqGenContext = <<>>
    /\ D1 = <<>> /\ VECTORS = {} /\ igParts = [r \in Ingests |-> <<>>]
    /\ igI = [r \in Ingests |-> 0] /\ igPc = [r \in Ingests |-> "idle"]
    /\ igRow = [r \in Ingests |-> NoIngestRow] /\ igAdded = [r \in Ingests |-> 0]
    /\ igStatus = [r \in Ingests |-> 0] /\ igLog = [r \in Ingests |-> <<>>]
    /\ igAfter = [r \in Ingests |-> {}]
    /\ dlParam = <<>> /\ dlId = 0 /\ dlPc = "idle" /\ dlStatus = 0
    /\ clPc = "idle" /\ clIds = <<>> /\ clI = 0 /\ clStatus = 0
    /\ caPc = "idle" /\ caMatches = <<>> /\ caI = 0 /\ caItems = <<>> /\ caTop = <<>>

VecNext == VEmbedOk \/ VEmbedFail \/ VQuery \/ VHydrate \/ VFinish
SpecVec == VecInit /\ [][VecNext]_vars

\* topKByVectorize for sizes up to and beyond the 12 candidates of the pool
MaxPoolK == 13
MaxPoolIndex == 13

PoolInit ==
    /\ ctText = <<>> /\ ctSize = 1 /\ ctOverlap = 0 /\ ctI = 0 /\ ctPrev = -1
    /\ ctChunks = <<>> /\ ctWindows = <<>> /\ ctPc = "idle"
    /\ kbQ = <<>> /\ kbText = <<>> /\ kbPc = "idle" /\ kbResult = 0
    /\ MEMORY = <<>> /\ NEXT_ID = 1
    /\ askPc = "idle" /\ askQVec = <<>> /\ askK = 0 /\ askRanked = <<>> /\ askResult = <<>>
    \* the index holds n vectors (ids 1..n, raw scores decreasing); every row is a plain
    \* text but for at most one with four keyword hits; k is any size, also beyond the pool
    /\ vQuestion = QuestionKeywords
    /\ vK \in 1..MaxPoolK
    /\ \E n \in 0..MaxPoolIndex :
         \E S \in SpecialSets(n) :
            /\ vIndex = [i \in 1..n |-> [id |-> i, score |-> BaseScore(i)]]
            /\ vRows  = [i \in 1..n |-> IF i \in S THEN Row(RichText, "json")
                                                   ELSE Row(PlainText, "json")]
    /\ vPc = "start"
    /\ vTopK = 0 /\ vMatches = <<>> /\ vI = 0 /\ vItems = <<>> /\ vResult = <<>>
    /\ DISK = NoFile /\ savePending = FALSE /\ loadPc = "idle" /\ loadBuf = NoFile
    /\ addPc = [c \in AddCalls |-> "idle"] /\ addI = [c \in AddCalls |-> 0]
    /\ assigned = {}
    /\ rqMode = "none" /\ rqQ = <<>> /\ rqKParam = <<>> /\ rqOpenAi = FALSE /\ rqK = 0
    /\ rqPc = "idle" /\ rqStatus = 0 /\ rqChunks = <<>> /\ rqAnswer = "none"
    /\ rqEmbedCalls = 0 /\ rqEmbedFailed = FALSE /\ rqSourceQueries = 0
    /\ rqGenCalls = 0 /\ rqGenContext = <<>>
    /\ D1 = <<>> /\ VECTORS = {} /\ igParts = [r \in Ingests |-> <<>>]
    /\ igI = [r \in Ingests |-> 0] /\ igPc = [r \in Ingests |-> "idle"]
    /\ igRow = [r \in Ingests |-> NoIngestRow] /\ igAdded = [r \in Ingests |-> 0]
    /\ igStatus = [r \in Ingests |-> 0] /\ igLog = [r \in Ingests |-> <<>>]
    /\ igAfter = [r \in Ingests |-> {}]
    /\ dlParam = <<>> /\ dlId = 0 /\ dlPc = "idle" /\ dlStatus = 0
    /\ clPc = "idle" /\ clIds = <<>> /\ clI = 0 /\ clStatus = 0
    /\ caPc = "idle" /\ caMatches = <<>> /\ caI = 0 /\ caItems = <<>> /\ caTop = <<>>

PoolNext == VEmbedOk \/ VEmbedFail \/ VQuery \/ VHydrate \/ VFinish
SpecPool == PoolInit /\ [][PoolNext]_vars

LocalInit ==
    /\ ctText = <<>> /\ ctSize = 1 /\ ctOverlap = 0 /\ ctI = 0 /\ ctPrev = -1
    /\ ctChunks = <<>> /\ ctWindows = <<>> /\ ctPc = "idle"
    /\ kbQ = <<>> /\ kbText = <<>> /\ kbPc = "idle" /\ kbResult = 0
    \* a fresh process: `const MEMORY = []; let NEXT_ID = 1;`, memory.json absent or
    \* left by an earlier run or another tool
    /\ MEMORY = <<>> /\ NEXT_ID = 1
    /\ DISK \in Payloads \cup {NoFile}
    /\ savePending = FALSE /\ loadPc = "idle" /\ loadBuf = NoFile
    /\ addPc = [c \in AddCalls |-> "idle"] /\ addI = [c \in AddCalls |-> 0]
    /\ assigned = {}
    /\ askPc = "idle" /\ askQVec = <<>> /\ askK = 0 /\ askRanked = <<>> /\ askResult = <<>>
    /\ vQuestion = <<>> /\ vK = 0 /\ vIndex = <<>> /\ vRows = <<>> /\ vPc = "idle"
    /\ vTopK = 0 /\ vMatches = <<>> /\ vI = 0 /\ vItems = <<>> /\ vResult = <<>>
    /\ rqMode = "none" /\ rqQ = <<>> /\ rqKParam = <<>> /\ rqOpenAi = FALSE /\ rqK = 0
    /\ rqPc = "idle" /\ rqStatus = 0 /\ rqChunks = <<>> /\ rqAnswer = "none"
    /\ rqEmbedCalls = 0 /\ rqEmbedFailed = FALSE /\ rqSourceQueries = 0
    /\ rqGenCalls = 0 /\ rqGenContext = <<>>
    /\ D1 = <<>> /\ VECTORS = {} /\ igParts = [r \in Ingests |-> <<>>]
    /\ igI = [r \in Ingests |-> 0] /\ igPc = [r \in Ingests |-> "idle"]
    /\ igRow = [r \in Ingests |-> NoIngestRow] /\ igAdded = [r \in Ingests |-> 0]
    /\ igStatus = [r \in Ingests |-> 0] /\ igLog = [r \in Ingests |-> <<>>]
    /\ igAfter = [r \in Ingests |-> {}]
    /\ dlParam = <<>> /\ dlId = 0 /\ dlPc = "idle" /\ dlStatus = 0
    /\ clPc = "idle" /\ clIds = <<>> /\ clI = 0 /\ clStatus = 0
    /\ caPc = "idle" /\ caMatches = <<>> /\ caI = 0 /\ caItems = <<>> /\ caTop = <<>>

AddStartSome == \E c \in AddCalls : AddStart(c)
AddEmbedReturnSome == \E c \in AddCalls : AddEmbedReturn(c)
AddEmbedFailSome == \E c \in AddCalls : AddEmbedFail(c)
AddSaveSome == \E c \in AddCalls : AddSave(c)

LocalNext ==
    \/ AddStartSome \/ AddEmbedReturnSome \/ AddEmbedFailSome \/ AddSaveSome
    \/ ClearMemory \/ ImportMemory \/ SaveMemory \/ LoadRead \/ LoadApply
SpecLocal == LocalInit /\ [][LocalNext]_vars

\* the Express app serving POST /ingest (addTextChunks) and GET /ask (embed, then
\* topKByCosine) at the same time
ServeInit ==
    /\ ctText = <<>> /\ ctSize = 1 /\ ctOverlap = 0 /\ ctI = 0 /\ ctPrev = -1
    /\ ctChunks = <<>> /\ ctWindows = <<>> /\ ctPc = "idle"
    /\ kbQ = <<>> /\ kbText = <<>> /\ kbPc = "idle" /\ kbResult = 0
    \* a fresh process without memory.json
    /\ MEMORY = <<>> /\ NEXT_ID = 1
    /\ DISK = NoFile
    /\ savePending = FALSE /\ loadPc = "idle" /\ loadBuf = NoFile
    /\ addPc = [c \in AddCalls |-> "idle"] /\ addI = [c \in AddCalls |-> 0]
    /\ assigned = {}
    /\ askPc = "idle" /\ askQVec = <<>> /\ askK = 0 /\ askRanked = <<>> /\ askResult = <<>>
    /\ vQuestion = <<>> /\ vK = 0 /\ vIndex = <<>> /\ vRows = <<>> /\ vPc = "idle"
    /\ vTopK = 0 /\ vMatches = <<>> /\ vI = 0 /\ vItems = <<>> /\ vResult = <<>>
    /\ rqMode = "none" /\ rqQ = <<>> /\ rqKParam = <<>> /\ rqOpenAi = FALSE /\ rqK = 0
    /\ rqPc = "idle" /\ rqStatus = 0 /\ rqChunks = <<>> /\ rqAnswer = "none"
    /\ rqEmbedCalls = 0 /\ rqEmbedFailed = FALSE /\ rqSourceQueries = 0
    /\ rqGenCalls = 0 /\ rqGenContext = <<>>
    /\ D1 = <<>> /\ VECTORS = {} /\ igParts = [r \in Ingests |-> <<>>]
    /\ igI = [r \in Ingests |-> 0] /\ igPc = [r \in Ingests |-> "idle"]
    /\ igRow = [r \in Ingests |-> NoIngestRow] /\ igAdded = [r \in Ingests |-> 0]
    /\ igStatus = [r \in Ingests |-> 0] /\ igLog = [r \in Ingests |-> <<>>]
    /\ igAfter = [r \in Ingests |-> {}]
    /\ dlParam = <<>> /\ dlId = 0 /\ dlPc = "idle" /\ dlStatus = 0
    /\ clPc = "idle" /\ clIds = <<>> /\ clI = 0 /\ clStatus = 0
    /\ caPc = "idle" /\ caMatches = <<>> /\ caI = 0 /\ caItems = <<>> /\ caTop = <<>>

ServeNext ==
    \/ AddStartSome \/ AddEmbedReturnSome \/ AddEmbedFailSome \/ AddSaveSome
    \/ AskStart \/ AskRank
SpecServe == ServeInit /\ [][ServeNext]_vars

\* the Express app between two restarts: POST /ingest (addTextChunks), POST /clear
\* and POST /import (clearMemory or importMemory, then saveMemory)
RestartInit ==
    /\ ctText = <<>> /\ ctSize = 1 /\ ctOverlap = 0 /\ ctI = 0 /\ ctPrev = -1
    /\ ctChunks = <<>> /\ ctWindows = <<>> /\ ctPc = "idle"
    /\ kbQ = <<>> /\ kbText = <<>> /\ kbPc = "idle" /\ kbResult = 0
    \* a process after its first boot: no memory.json, so loadMemory left MEMORY empty
    /\ MEMORY = <<>> /\ NEXT_ID = 1
    /\ DISK = NoFile
    /\ savePending = FALSE /\ loadPc = "idle" /\ loadBuf = NoFile
    /\ addPc = [c \in AddCalls |-> "idle"] /\ addI = [c \in AddCalls |-> 0]
    /\ assigned = {}
    /\ askPc = "idle" /\ askQVec = <<>> /\ askK = 0 /\ askRanked = <<>> /\ askResult = <<>>
    /\ vQuestion = <<>> /\ vK = 0 /\ vIndex = <<>> /\ vRows = <<>> /\ vPc = "idle"
    /\ vTopK = 0 /\ vMatches = <<>> /\ vI = 0 /\ vItems = <<>> /\ vResult = <<>>
    /\ rqMode = "none" /\ rqQ = <<>> /\ rqKParam = <<>> /\ rqOpenAi = FALSE /\ rqK = 0
    /\ rqPc = "idle" /\ rqStatus = 0 /\ rqChunks = <<>> /\ rqAnswer = "none"
    /\ rqEmbedCalls = 0 /\ rqEmbedFailed = FALSE /\ rqSourceQueries = 0
    /\ rqGenCalls = 0 /\ rqGenContext = <<>>
    /\ D1 = <<>> /\ VECTORS = {} /\ igParts = [r \in Ingests |-> <<>>]
    /\ igI = [r \in Ingests |-> 0] /\ igPc = [r \in Ingests |-> "idle"]
    /\ igRow = [r \in Ingests |-> NoIngestRow] /\ igAdded = [r \in Ingests |-> 0]
    /\ igStatus = [r \in Ingests |-> 0] /\ igLog = [r \in Ingests |-> <<>>]
    /\ igAfter = [r \in Ingests |-> {}]
    /\ dlParam = <<>> /\ dlId = 0 /\ dlPc = "idle" /\ dlStatus = 0
    /\ clPc = "idle" /\ clIds = <<>> /\ clI = 0 /\ clStatus = 0
    /\ caPc = "idle" /\ caMatches = <<>> /\ caI = 0 /\ caItems = <<>> /\ caTop = <<>>

RestartNext ==
    \/ AddStartSome \/ AddEmbedReturnSome \/ AddEmbedFailSome \/ AddSaveSome
    \/ ClearMemory \/ ImportMemory \/ SaveMemory
SpecRestart == RestartInit /\ [][RestartNext]_vars

AskInit ==
    /\ ctText = <<>> /\ ctSize = 1 /\ ctOverlap = 0 /\ ctI = 0 /\ ctPrev = -1
    /\ ctChunks = <<>> /\ ctWindows = <<>> /\ ctPc = "idle"
    /\ kbQ = <<>> /\ kbText = <<>> /\ kbPc = "idle" /\ kbResult = 0
    /\ askPc = "idle" /\ askQVec = <<>> /\ askK = 0 /\ askRanked = <<>> /\ askResult = <<>>
    /\ vQuestion = <<>> /\ vK = 0 /\ vPc = "idle"
    /\ vTopK = 0 /\ vMatches = <<>> /\ vI = 0 /\ vItems = <<>> /\ vResult = <<>>
    /\ DISK = NoFile /\ savePending = FALSE /\ loadPc = "idle" /\ loadBuf = NoFile
    /\ addPc = [c \in AddCalls |-> "idle"] /\ addI = [c \in AddCalls |-> 0]
    /\ assigned = {}
    \* one request: `?q=...&k=...`, to the Express app over MEMORY or to the Hono app
    \* over the index and the row store
    /\ rqMode \in {"express", "hono"}
    /\ rqQ \in Questions \cup {<<>>, BlankText}
    /\ rqKParam \in KParams
    /\ rqOpenAi \in BOOLEAN
    /\ \E mem \in AskCorpora, n \in 0..MaxAskIndex :
         \E rows \in [1..n -> AskRows] :
            /\ MEMORY = IF rqMode = "express" THEN mem ELSE <<>>
            /\ NEXT_ID = Len(MEMORY) + 1
            /\ vIndex = IF rqMode = "hono"
                           THEN [i \in 1..n |-> [id |-> i, score |-> BaseScore(i)]]
                           ELSE <<>>
            /\ vRows = IF rqMode = "hono" THEN rows ELSE <<>>
    /\ rqK = 0 /\ rqPc = "new" /\ rqStatus = 0 /\ rqChunks = <<>> /\ rqAnswer = "none"
    /\ rqEmbedCalls = 0 /\ rqEmbedFailed = FALSE /\ rqSourceQueries = 0
    /\ rqGenCalls = 0 /\ rqGenContext = <<>>
    /\ D1 = <<>> /\ VECTORS = {} /\ igParts = [r \in Ingests |-> <<>>]
    /\ igI = [r \in Ingests |-> 0] /\ igPc = [r \in Ingests |-> "idle"]
    /\ igRow = [r \in Ingests |-> NoIngestRow] /\ igAdded = [r \in Ingests |-> 0]
    /\ igStatus = [r \in Ingests |-> 0] /\ igLog = [r \in Ingests |-> <<>>]
    /\ igAfter = [r \in Ingests |-> {}]
    /\ dlParam = <<>> /\ dlId = 0 /\ dlPc = "idle" /\ dlStatus = 0
    /\ clPc = "idle" /\ clIds = <<>> /\ clI = 0 /\ clStatus = 0
    /\ caPc = "idle" /\ caMatches = <<>> /\ caI = 0 /\ caItems = <<>> /\ caTop = <<>>

AskNext ==
    \/ RqBegin \/ RqEmbedFail \/ RqEmbedReturn \/ RqQueryFail \/ RqQueryReturn
    \/ RqGenerateReturn \/ RqOpenAiReturn \/ RqOllamaReturn \/ ClearMemory
SpecAsk == AskInit /\ [][AskNext]_vars

IngestInit ==
    /\ ctText = <<>> /\ ctSize = 1 /\ ctOverlap = 0 /\ ctI = 0 /\ ctPrev = -1
    /\ ctChunks = <<>> /\ ctWindows = <<>> /\ ctPc = "idle"
    /\ kbQ = <<>> /\ kbText = <<>> /\ kbPc = "idle" /\ kbResult = 0
    /\ MEMORY = <<>> /\ NEXT_ID = 1
    /\ askPc = "idle" /\ askQVec = <<>> /\ askK = 0 /\ askRanked = <<>> /\ askResult = <<>>
    /\ vQuestion = <<>> /\ vK = 0 /\ vIndex = <<>> /\ vRows = <<>> /\ vPc = "idle"
    /\ vTopK = 0 /\ vMatches = <<>> /\ vI = 0 /\ vItems = <<>> /\ vResult = <<>>
    /\ DISK = NoFile /\ savePending = FALSE /\ loadPc = "idle" /\ loadBuf = NoFile
    /\ addPc = [c \in AddCalls |-> "idle"] /\ addI = [c \in AddCalls |-> 0]
    /\ assigned = {}
    /\ rqMode = "none" /\ rqQ = <<>> /\ rqKParam = <<>> /\ rqOpenAi = FALSE /\ rqK = 0
    /\ rqPc = "idle" /\ rqStatus = 0 /\ rqChunks = <<>> /\ rqAnswer = "none"
    /\ rqEmbedCalls = 0 /\ rqEmbedFailed = FALSE /\ rqSourceQueries = 0
    /\ rqGenCalls = 0 /\ rqGenContext = <<>>
    \* the table and the index are empty, or hold one chunk ingested earlier
    /\ \E old \in BOOLEAN :
         /\ D1 = IF old THEN << [id |-> 1, text |-> <<"a">>] >> ELSE <<>>
         /\ VECTORS = IF old THEN {1} ELSE {}
    /\ igParts = [r \in Ingests |-> <<>>]
    /\ igI = [r \in Ingests |-> 0] /\ igPc = [r \in Ingests |-> "idle"]
    /\ igRow = [r \in Ingests |-> NoIngestRow] /\ igAdded = [r \in Ingests |-> 0]
    /\ igStatus = [r \in Ingests |-> 0] /\ igLog = [r \in Ingests |-> <<>>]
    /\ igAfter = [r \in Ingests |-> {}]
    /\ dlParam = <<>> /\ dlId = 0 /\ dlPc = "idle" /\ dlStatus = 0
    /\ clPc = "idle" /\ clIds = <<>> /\ clI = 0 /\ clStatus = 0
    /\ caPc = "idle" /\ caMatches = <<>> /\ caI = 0 /\ caItems = <<>> /\ caTop = <<>>

IgBeginSome == \E r \in Ingests : IgBegin(r)
IgSelectSome == \E r \in Ingests : IgSelect(r)
IgInsertSome == \E r \in Ingests : IgInsert(r)
IgDbFailSome == \E r \in Ingests : IgDbFail(r)
IgEmbedReturnSome == \E r \in Ingests : IgEmbedReturn(r)
IgEmbedOrUpsertFailSome == \E r \in Ingests : IgEmbedOrUpsertFail(r)
IgUpsertReturnSome == \E r \in Ingests : IgUpsertReturn(r)
IgCountSome == \E r \in Ingests : IgCount(r)

IngestNext ==
    \/ IgBeginSome \/ IgSelectSome \/ IgInsertSome \/ IgDbFailSome
    \/ IgEmbedReturnSome \/ IgEmbedOrUpsertFailSome \/ IgUpsertReturnSome \/ IgCountSome
SpecIngest == IngestInit /\ [][IngestNext]_vars

\* the Worker serving one /ingest, one /delete/:id and one /clear request at the same
\* time
CloudInit ==
    /\ ctText = <<>> /\ ctSize = 1 /\ ctOverlap = 0 /\ ctI = 0 /\ ctPrev = -1
    /\ ctChunks = <<>> /\ ctWindows = <<>> /\ ctPc = "idle"
    /\ kbQ = <<>> /\ kbText = <<>> /\ kbPc = "idle" /\ kbResult = 0
    /\ MEMORY = <<>> /\ NEXT_ID = 1
    /\ askPc = "idle" /\ askQVec = <<>> /\ askK = 0 /\ askRanked = <<>> /\ askResult = <<>>
    /\ vQuestion = <<>> /\ vK = 0 /\ vIndex = <<>> /\ vRows = <<>> /\ vPc = "idle"
    /\ vTopK = 0 /\ vMatches = <<>> /\ vI = 0 /\ vItems = <<>> /\ vResult = <<>>
    /\ DISK = NoFile /\ savePending = FALSE /\ loadPc = "idle" /\ loadBuf = NoFile
    /\ addPc = [c \in AddCalls |-> "idle"] /\ addI = [c \in AddCalls |-> 0]
    /\ assigned = {}
    /\ rqMode = "none" /\ rqQ = <<>> /\ rqKParam = <<>> /\ rqOpenAi = FALSE /\ rqK = 0
    /\ rqPc = "idle" /\ rqStatus = 0 /\ rqChunks = <<>> /\ rqAnswer = "none"
    /\ rqEmbedCalls = 0 /\ rqEmbedFailed = FALSE /\ rqSourceQueries = 0
    /\ rqGenCalls = 0 /\ rqGenContext = <<>>
    \* the table and the index are empty, or hold one chunk ingested earlier
    /\ \E old \in BOOLEAN :
         /\ D1 = IF old THEN << [id |-> 1, text |-> <<"a">>] >> ELSE <<>>
         /\ VECTORS = IF old THEN {1} ELSE {}
    /\ igParts = [r \in Ingests |-> <<>>]
    /\ igI = [r \in Ingests |-> 0] /\ igPc = [r \in Ingests |-> "idle"]
    /\ igRow = [r \in Ingests |-> NoIngestRow] /\ igAdded = [r \in Ingests |-> 0]
    /\ igStatus = [r \in Ingests |-> 0] /\ igLog = [r \in Ingests |-> <<>>]
    /\ igAfter = [r \in Ingests |-> {}]
    /\ dlParam = <<>> /\ dlId = 0 /\ dlPc = "idle" /\ dlStatus = 0
    /\ clPc = "idle" /\ clIds = <<>> /\ clI = 0 /\ clStatus = 0
    /\ caPc = "idle" /\ caMatches = <<>> /\ caI = 0 /\ caItems = <<>> /\ caTop = <<>>

\* the steps of the one /ingest request of this specification
IgBeginOne == IgBegin(1)
IgSelectOne == IgSelect(1)
IgInsertOne == IgInsert(1)
IgDbFailOne == IgDbFail(1)
IgEmbedReturnOne == IgEmbedReturn(1)
IgEmbedOrUpsertFailOne == IgEmbedOrUpsertFail(1)
IgUpsertReturnOne == IgUpsertReturn(1)
IgCountOne == IgCount(1)

CloudNext ==
    \/ IgBeginOne \/ IgSelectOne \/ IgInsertOne \/ IgDbFailOne
    \/ IgEmbedReturnOne \/ IgEmbedOrUpsertFailOne \/ IgUpsertReturnOne \/ IgCountOne
    \/ DlBegin \/ DlDbReturn \/ DlIndexReturn \/ DlFail
    \/ ClBegin \/ ClSelectReturn \/ ClIndexReturn \/ ClDbReturn \/ ClFail
SpecCloud == CloudInit /\ [][CloudNext]_vars

\* the Worker serving /ingest and /delete/:id at the same time, and an /ask once the
\* delete has answered
DeleteInit ==
    /\ ctText = <<>> /\ ctSize = 1 /\ ctOverlap = 0 /\ ctI = 0 /\ ctPrev = -1
    /\ ctChunks = <<>> /\ ctWindows = <<>> /\ ctPc = "idle"
    /\ kbQ = <<>> /\ kbText = <<>> /\ kbPc = "idle" /\ kbResult = 0
    /\ MEMORY = <<>> /\ NEXT_ID = 1
    /\ askPc = "idle" /\ askQVec = <<>> /\ askK = 0 /\ askRanked = <<>> /\ askResult = <<>>
    /\ vQuestion = <<>> /\ vK = 0 /\ vIndex = <<>> /\ vRows = <<>> /\ vPc = "idle"
    /\ vTopK = 0 /\ vMatches = <<>> /\ vI = 0 /\ vItems = <<>> /\ vResult = <<>>
    /\ DISK = NoFile /\ savePending = FALSE /\ loadPc = "idle" /\ loadBuf = NoFile
    /\ addPc = [c \in AddCalls |-> "idle"] /\ addI = [c \in AddCalls |-> 0]
    /\ assigned = {}
    /\ rqMode = "none" /\ rqQ = <<>> /\ rqKParam = <<>> /\ rqOpenAi = FALSE /\ rqK = 0
    /\ rqPc = "idle" /\ rqStatus = 0 /\ rqChunks = <<>> /\ rqAnswer = "none"
    /\ rqEmbedCalls = 0 /\ rqEmbedFailed = FALSE /\ rqSourceQueries = 0
    /\ rqGenCalls = 0 /\ rqGenContext = <<>>
    \* the table and the index are empty, or hold one chunk ingested earlier
    /\ \E old \in BOOLEAN :
         /\ D1 = IF old THEN << [id |-> 1, text |-> <<"a">>] >> ELSE <<>>
         /\ VECTORS = IF old THEN {1} ELSE {}
    /\ igParts = [r \in Ingests |-> <<>>]
    /\ igI = [r \in Ingests |-> 0] /\ igPc = [r \in Ingests |-> "idle"]
    /\ igRow = [r \in Ingests |-> NoIngestRow] /\ igAdded = [r \in Ingests |-> 0]
    /\ igStatus = [r \in Ingests |-> 0] /\ igLog = [r \in Ingests |-> <<>>]
    /\ igAfter = [r \in Ingests |-> {}]
    /\ dlParam = <<>> /\ dlId = 0 /\ dlPc = "idle" /\ dlStatus = 0
    /\ clPc = "idle" /\ clIds = <<>> /\ clI = 0 /\ clStatus = 0
    /\ caPc = "idle" /\ caMatches = <<>> /\ caI = 0 /\ caItems = <<>> /\ caTop = <<>>

DeleteNext ==
    \/ IgBeginSome \/ IgSelectSome \/ IgInsertSome \/ IgDbFailSome
    \/ IgEmbedReturnSome \/ IgEmbedOrUpsertFailSome \/ IgUpsertReturnSome \/ IgCountSome
    \/ DlBegin \/ DlDbReturn \/ DlIndexReturn \/ DlFail
    \/ CaBegin \/ CaQueryReturn \/ CaHydrate
SpecDelete == DeleteInit /\ [][DeleteNext]_vars

----------------------------------------------------------------------------
(* Claims *)

\* C1 (as stated): chunkText terminates for every chunkSize >= 1 and overlap >= 0,
\* because the cursor of each window is strictly greater than the cursor of the
\* window before it.
C1_CursorStrictlyIncreases ==
    (ctPc = "loop" /\ ctPrev >= 0) => ctI > ctPrev

\* the windows [start, end) that hold the character index x
WindowsOf(x) == {j \in 1..Len(ctWindows) : ctWindows[j][1] <= x /\ x < ctWindows[j][2]}

\* x lies in two consecutive windows
InOverlap(x) == \E j \in 1..(Len(ctWindows) - 1) : {j, j + 1} \subseteq WindowsOf(x)

\* C17: for 0 <= overlap < chunkSize and a text of length N >= 1 the windows start at
\* 0, each next one starts chunkSize - overlap after the one before, the last ends at
\* N; every index of the text is in a window, and an index outside the overlap of
\* consecutive windows is in exactly one.
C17_WindowsCoverText ==
    (ctPc = "done" /\ ctOverlap < ctSize /\ Len(ctText) >= 1) =>
        /\ Len(ctWindows) >= 1
        /\ ctWindows[1][1] = 0
        /\ \A j \in 1..(Len(ctWindows) - 1) :
              ctWindows[j + 1][1] = ctWindows[j][1] + ctSize - ctOverlap
        /\ ctWindows[Len(ctWindows)][2] = Len(ctText)
        /\ \A x \in 0..(Len(ctText) - 1) :
              /\ WindowsOf(x) # {}
              /\ ~InOverlap(x) => Cardinality(WindowsOf(x)) = 1

\* three windows that overlap, one index in all three, another in one only
C17_Witness ==
    /\ ctPc = "done"
    /\ 0 < ctOverlap /\ ctOverlap < ctSize
    /\ Len(ctWindows) >= 3
    /\ \E x \in 0..(Len(ctText) - 1) : Cardinality(WindowsOf(x)) = 3
    /\ \E x \in 0..(Len(ctText) - 1) : Cardinality(WindowsOf(x)) = 1

\* the text is empty or made of whitespace only
BlankInput == \A p \in 1..Len(ctText) : ctText[p] \in WhiteSpace

\* every chunk pushed so far is non-empty and has no whitespace at either end; a blank
\* text has pushed none
C18_ChunksTrimmed ==
    /\ \A c \in 1..Len(ctChunks) :
          /\ ctChunks[c] # <<>>
          /\ ctChunks[c][1] \notin WhiteSpace
          /\ ctChunks[c][Len(ctChunks[c])] \notin WhiteSpace
    /\ BlankInput => ctChunks = <<>>

\* C18: chunkText returns the empty sequence for an empty or whitespace-only text (a
\* blank window is dropped and the cursor still advances, so the call returns), and
\* every chunk is non-empty without leading or trailing whitespace.
C18_BlankWindowsDropped ==
    /\ C18_ChunksTrimmed
    /\ (BlankInput /\ ctPc = "loop" /\ ctPrev >= 0) => ctI > ctPrev

\* C2 (as stated): in the result of topKByCosine and of topKByVectorize the entry at
\* position i carries ref "#i".
C2_RefsFollowRank ==
    /\ askPc = "done" => \A i \in 1..Len(askResult) : askResult[i].ref = i
    /\ vPc = "done" => \A i \in 1..Len(vResult) : vResult[i].ref = i

\* the cosine score of the chunk with id `id` (ids are positions in MEMORY here)
CosOf(id) == cosineSim(askQVec, MEMORY[id].embedding)

\* C3: topKByCosine returns its candidates in non-increasing order of cosine score,
\* and of two chunks with equal score the one earlier in MEMORY comes first; each
\* entry carries the text and the 4-decimal score of its chunk.
C3_RankedByCosineStable ==
    askPc = "done" =>
        /\ Len(askResult) = Len(askRanked)
        /\ \A j \in 1..Len(askRanked) :
              /\ askRanked[j].id \in 1..Len(MEMORY)
              /\ askResult[j].text = MEMORY[askRanked[j].id].text
              /\ askResult[j].score = Fixed4(CosOf(askRanked[j].id))
        /\ \A i, j \in 1..Len(askRanked) :
              i < j =>
                 \/ CosOf(askRanked[i].id) > CosOf(askRanked[j].id)
                 \/ /\ CosOf(askRanked[i].id) = CosOf(askRanked[j].id)
                    /\ askRanked[i].id < askRanked[j].id

\* a ranking with a tie and with two different scores, returned out of corpus order
C3_Witness ==
    /\ askPc = "done"
    /\ Len(askRanked) = 3
    /\ CosOf(askRanked[1].id) > CosOf(askRanked[2].id)
    /\ CosOf(askRanked[2].id) = CosOf(askRanked[3].id)
    /\ askRanked[1].id = 3

\* C4: for k1 < k2, the result of topKByCosine for k1 is exactly the first entries of
\* the result for k2 (same chunks, order, ref and score).
C4_SmallerKIsPrefix ==
    askPc = "done" =>
        \A k1 \in 1..MaxK :
            LET r1 == topKByCosine(MEMORY, askQVec, k1)
            IN /\ k1 < askK => r1 = SubSeq(askResult, 1, Len(r1))
               /\ k1 < askK => Len(r1) = Min(k1, Len(askResult))
               /\ k1 > askK => askResult = SubSeq(r1, 1, Len(askResult))

\* a result of three entries, not in corpus order, compared with the results for k = 1, 2
C4_Witness ==
    /\ askPc = "done"
    /\ askK = 3
    /\ Len(askResult) = 3
    /\ askRanked[1].id = 3
    /\ askRanked[2].id = 1

\* a request with a non-empty query is over and retrieval left no candidate: the
\* corpus was empty when the request arrived, or retrieval ran and returned nothing
ZeroCandidates ==
    /\ rqPc = "done"
    /\ Trim(rqQ) # <<>>
    /\ ~rqEmbedFailed
    /\ \/ rqSourceQueries = 1 /\ rqChunks = <<>> /\ rqStatus # 500
       \/ rqMode = "express" /\ rqEmbedCalls = 0 /\ Len(MEMORY) = 0

\* C11: when retrieval leaves zero candidates, a non-empty query to /ask ends without
\* an error: the chunk list is empty, the answer is the "no relevant context"
\* sentinel, and no generator was called.
C11_ZeroCandidatesIsNoError ==
    ZeroCandidates =>
        /\ rqStatus = 200
        /\ rqChunks = <<>>
        /\ rqAnswer = "sentinel"
        /\ rqGenCalls = 0

\* the part of C11 that holds: the Hono handler
C11_HonoZeroCandidates ==
    (ZeroCandidates /\ rqMode = "hono") =>
        rqStatus = 200 /\ rqAnswer = "sentinel" /\ rqGenCalls = 0

\* the k the claim describes: 4 when parseInt gives no number, else the parsed
\* integer clamped to [1, 8]
ClaimedK(param) ==
    LET p == ParseInt(param)
    IN IF p.nan THEN 4
       ELSE IF p.val < 1 THEN 1 ELSE IF p.val > 8 THEN 8 ELSE p.val

\* C12: the k handed to retrieval is an integer in [1, 8]: 4 when the parameter is
\* absent or not a number, otherwise the parsed integer clamped to [1, 8] (values
\* below 1 give 1, values above 8 give 8).
C12_KClamped ==
    rqPc \notin {"idle", "new"} =>
        /\ rqK \in 1..8
        /\ rqK = ClaimedK(rqKParam)

\* the part of C12 that holds: k is an integer in [1, 8]
C12_KInRange == rqPc \notin {"idle", "new"} => rqK \in 1..8

\* C13: if the embedder fails, the embedder was called exactly once, the candidate
\* source is never queried, no generator is called, and /ask ends in an error
\* response.
C13_EmbedFailureFailsFast ==
    rqEmbedFailed =>
        /\ rqEmbedCalls = 1
        /\ rqSourceQueries = 0
        /\ rqGenCalls = 0
        /\ rqPc = "done"
        /\ rqStatus = 500
        /\ rqChunks = <<>> /\ rqAnswer = "none"

\* the embedder failed for a request to the Hono handler over a non-empty index
C13_Witness ==
    /\ rqEmbedFailed
    /\ rqPc = "done"
    /\ rqMode = "hono"
    /\ Len(vIndex) > 0

\* the chunks of request r that insertChunk reported as newly inserted
InsertedChunks(r) == {j \in 1..Len(igLog[r]) : igLog[r][j].inserted}

C15_MemoryIdsUnique ==
    \A i, j \in 1..Len(MEMORY) : MEMORY[i].id = MEMORY[j].id => i = j

\* C16: an id addTextChunks assigned to a chunk is never assigned to another chunk
\* later in the process, also after clearMemory removed the first.
C16_IdsNeverReused ==
    \A x, y \in assigned : x[1] = y[1] => x[2] = y[2]

\* all components are zero
ZeroVector(v) == \A i \in 1..Len(v) : v[i] = 0

\* C19: cosineSim(a, b) is exactly 0 (no NaN, no error) whenever a or b has zero
\* magnitude, for every other vector of the same length.
C19_ZeroMagnitudeScoresZero ==
    askPc = "done" =>
        \A i \in 1..Len(MEMORY) :
            LET e == MEMORY[i].embedding
            IN (Len(e) = Len(askQVec) /\ (ZeroVector(e) \/ ZeroVector(askQVec))) =>
                  /\ cosineSim(askQVec, e) = 0
                  /\ cosineSim(e, askQVec) = 0
                  /\ \A j \in 1..Len(askRanked) : askRanked[j].id = i => askRanked[j].score = 0

\* a zero stored vector scored against a non-zero query, and returned
C19_Witness ==
    /\ askPc = "done"
    /\ ~ZeroVector(askQVec)
    /\ \E j \in 1..Len(askRanked) :
          /\ ZeroVector(askRanked[j].embedding)
          /\ Len(askRanked[j].embedding) = Len(askQVec)
          /\ askRanked[j].score = 0

\* C20: for a corpus of n chunks and a positive k, topKByCosine returns exactly
\* min(k, n) entries, and they are min(k, n) distinct chunks of the corpus.
C20_ExactlyMinKN ==
    askPc = "done" =>
        /\ Len(askResult) = Min(askK, Len(MEMORY))
        /\ Len(askRanked) = Len(askResult)
        /\ \A j \in 1..Len(askRanked) :
              /\ askRanked[j].id \in 1..Len(MEMORY)
              /\ askRanked[j].text = MEMORY[askRanked[j].id].text
              /\ askResult[j].text = askRanked[j].text
        /\ \A j1, j2 \in 1..Len(askRanked) : askRanked[j1].id = askRanked[j2].id => j1 = j2

\* a corpus larger than k, cut to k entries
C20_Witness ==
    /\ askPc = "done"
    /\ askK = 2
    /\ Len(MEMORY) = 3
    /\ Len(askResult) = 2

\* the number of keyword tokens of the question found in the text
KeywordHits(q, text) ==
    LET toks == QueryTokens(q)
    IN Cardinality({i \in 1..Len(toks) : Includes(ToLowerCase(text), toks[i])})

\* the positions of the result that hold the candidate with this id
PosOf(id) == {j \in 1..Len(vResult) : vResult[j].id = id}

\* the scenario of the spec: k = 4, the index returned 12 matches, the 3rd and the 9th
\* are hydrated, the 9th has 4 keyword hits and no other candidate has any
C5_Scenario ==
    /\ vPc = "done"
    /\ vK = 4
    /\ Len(vMatches) = 12
    /\ vRows[vMatches[9].id].kind = "row"
    /\ vRows[vMatches[3].id].kind = "row"
    /\ Len(Trim(vRows[vMatches[3].id].text)) > 0
    /\ KeywordHits(vQuestion, vRows[vMatches[9].id].text) = 4
    /\ \A i \in (1..12) \ {9} :
          KeywordHits(vQuestion, TryBlock(vRows[vMatches[i].id]).text) = 0

\* C5: in that scenario, whenever raw9 + 0.2 > raw3, the 9th candidate is placed ahead
\* of the 3rd and appears in the returned top 4.
C5_BoostDisplaces ==
    (C5_Scenario /\ vMatches[9].score + BoostCap > vMatches[3].score) =>
        /\ PosOf(vMatches[9].id) # {}
        /\ \A a \in PosOf(vMatches[9].id), b \in PosOf(vMatches[3].id) : a < b

\* what the code does guarantee in that scenario: the 9th candidate displaces the 3rd
\* once the difference survives the rounding to 4 decimals that precedes the sort
C5_BoostDisplacesByMargin ==
    (C5_Scenario /\ vMatches[9].score + BoostCap >= vMatches[3].score + Unit4) =>
        /\ PosOf(vMatches[9].id) # {}
        /\ \A a \in PosOf(vMatches[9].id), b \in PosOf(vMatches[3].id) : a < b

\* the full-precision boosted score of a returned entry: index score plus keyword boost
FullBoosted(it) == vIndex[it.id].score + keywordBoost(vQuestion, it.text)

\* C6: a result of topKByVectorize has at most k entries, none with an empty or blank
\* text, in non-increasing order of the boosted score (index score plus keyword
\* boost); blanks are removed before the cut, so the result has
\* min(k, number of non-blank candidates) entries.
C6_OrderedByBoostedScore ==
    vPc = "done" =>
        /\ Len(vResult) <= vK
        /\ Len(vResult) = Min(vK, Cardinality({i \in 1..Len(vItems) : NotBlank(vItems[i])}))
        /\ \A j \in 1..Len(vResult) : NotBlank(vResult[j])
        /\ \A j \in 1..(Len(vResult) - 1) :
              FullBoosted(vResult[j]) >= FullBoosted(vResult[j + 1])

\* the candidates hydrated with a text that is not blank
NonBlankItems == {i \in 1..Len(vItems) : NotBlank(vItems[i])}

\* what the code does guarantee: the same, with the order taken on the returned score
\* (the index score rounded to 4 decimals, plus the keyword boost)
C6_ResultShape ==
    vPc = "done" =>
        /\ Len(vResult) <= vK
        /\ Len(vResult) = Min(vK, Cardinality(NonBlankItems))
        /\ \A j \in 1..Len(vResult) :
              /\ vResult[j].text # <<>>
              /\ \E p \in 1..Len(vResult[j].text) : vResult[j].text[p] \notin WhiteSpace
              /\ vResult[j].id \in 1..Len(vIndex)
              /\ vResult[j].score =
                    Fixed4(Fixed4(vIndex[vResult[j].id].score)
                           + keywordBoost(vQuestion, vResult[j].text))
        /\ \A j \in 1..(Len(vResult) - 1) : vResult[j].score >= vResult[j + 1].score

\* the candidates whose hydration failed: the lookup threw, found no row, or the
\* row's meta could not be parsed
HydrationFailed(id) == vRows[id].kind # "row" \/ vRows[id].meta = "bad"

\* C7 (as stated): a candidate whose hydration failed never appears in the result of
\* topKByVectorize, neither whole nor partially filled.
C7_FailedHydrationDropped ==
    vPc = "done" => \A j \in 1..Len(vResult) : ~HydrationFailed(vResult[j].id)

\* C8 (as stated): hydration failures never make topKByVectorize throw; the call
\* returns the ranking of the successfully hydrated candidates (empty when all fail).
C8_FailuresLeaveRankingOfTheRest ==
    /\ vPc = "failed" => vTopK = 0
    /\ vPc = "done" =>
          LET good == SelectSeq(vItems, LAMBDA it : ~HydrationFailed(it.id))
          IN vResult = Rerank(good, vK)

\* the part of C8 that holds: an exception of the hydration never leaves the call
C8_NeverThrows == vPc = "failed" => vTopK = 0

\* the maximal runs of [a-z0-9] in the lower-cased query, as pairs of positions
TokenSpans(q) ==
    LET lq     == ToLowerCase(q)
        starts == {a \in 1..Len(q) : IsAlnum(lq[a]) /\ (a = 1 \/ ~IsAlnum(lq[a - 1]))}
        ends   == {b \in 1..Len(q) : IsAlnum(lq[b]) /\ (b = Len(q) \/ ~IsAlnum(lq[b + 1]))}
    IN {sp \in starts \X ends :
          /\ sp[1] <= sp[2]
          /\ \A p \in sp[1]..sp[2] : IsAlnum(lq[p])}

\* how many query tokens (longer than 2, not stop words) occur in the lower-cased text
SpecHits(q, text) ==
    LET lq  == ToLowerCase(q)
        hay == ToLowerCase(text)
    IN Cardinality({sp \in TokenSpans(q) :
          LET tok == SubSeq(lq, sp[1], sp[2])
          IN /\ Len(tok) > 2
             /\ tok \notin StopWords
             /\ \E p \in 1..Len(hay) :
                   /\ p + Len(tok) - 1 <= Len(hay)
                   /\ \A d \in 0..(Len(tok) - 1) : hay[p + d] = tok[d + 1]})

\* C9: keywordBoost returns min(0.2, 0.05 * hits); the result is in [0, 0.2] and is 0
\* when the query or the text is empty.
C9_BoostIsCappedHits ==
    kbPc = "done" =>
        /\ kbResult = Min(BoostCap, BoostPerHit * SpecHits(kbQ, kbText))
        /\ 0 <= kbResult /\ kbResult <= BoostCap
        /\ (kbQ = <<>> \/ kbText = <<>>) => kbResult = 0

\* five hits, capped at 0.2, against a text in another case
C9_Witness ==
    /\ kbPc = "done"
    /\ SpecHits(kbQ, kbText) = 5
    /\ kbResult = BoostCap
    /\ \E p \in 1..Len(kbText) : kbText[p] = "D"

\* C10 (as stated): when the query vector and a stored embedding differ in length,
\* no score is computed and no ranking that contains the chunk is returned.
C10_MismatchRejected ==
    askPc = "done" =>
        \A j \in 1..Len(askRanked) : Len(askRanked[j].embedding) = Len(askQVec)

\* a step in which a retrieval call does its reading: topKByCosine in the Express
\* handler, the index query and the row lookups of topKByVectorize in the Hono handler
RetrievalStep ==
    \/ rqMode = "express" /\ rqPc = "embed" /\ rqPc' \in {"openai", "ollama"}
    \/ rqMode = "hono" /\ rqPc = "query" /\ rqSourceQueries = 1 /\ rqPc' \in {"generate", "done"}

\* C21: a retrieval call (topKByCosine, topKByVectorize) leaves the store as it was:
\* the same chunks in the same order with the same id, text and embedding, the same
\* next-id counter, and the same index and rows in cloud mode.
C21_RetrievalLeavesStore ==
    [][RetrievalStep =>
          /\ MEMORY' = MEMORY
          /\ NEXT_ID' = NEXT_ID
          /\ vIndex' = vIndex
          /\ vRows' = vRows]_vars

\* topKByCosine has returned the two chunks of MEMORY in the other order
C21_Witness ==
    /\ rqMode = "express"
    /\ rqPc = "done"
    /\ rqStatus = 200
    /\ Len(MEMORY) = 2
    /\ Len(rqChunks) = 2
    /\ rqChunks[1].text = MEMORY[2].text
    /\ rqChunks[1].text # MEMORY[1].text

\* the item holds a vector
HasEmbedding(it) == Len(it.embedding) > 0

\* what a step of the Express app does to MEMORY and what a ranking pass reads
C22_Step ==
    /\ MEMORY' # MEMORY =>
          \E c \in AddCalls :
             /\ addPc[c] = "embed"
             /\ addI'[c] = addI[c] + 1
             /\ Len(MEMORY') = Len(MEMORY) + 1
             /\ SubSeq(MEMORY', 1, Len(MEMORY)) = MEMORY
             /\ MEMORY'[Len(MEMORY')].text = ChunksOfCall(c)[addI'[c]]
             /\ HasEmbedding(MEMORY'[Len(MEMORY')])
    /\ (askPc = "embed" /\ askPc' = "done") =>
          /\ MEMORY' = MEMORY
          /\ Len(askRanked') = Min(askK, Len(MEMORY))
          /\ \A j \in 1..Len(askRanked') :
                \E i \in 1..Len(MEMORY) :
                   /\ askRanked'[j].id = MEMORY[i].id
                   /\ askRanked'[j].embedding = MEMORY[i].embedding
                   /\ HasEmbedding(MEMORY[i])

\* C22: in brute-force mode, under any interleaving of /ask with in-flight /ingest
\* requests, every chunk of MEMORY has its embedding; a chunk is appended only when
\* its embed call returns, and a ranking pass reads one state of MEMORY.
C22_ScanSeesEmbeddedChunks ==
    /\ [](\A i \in 1..Len(MEMORY) : HasEmbedding(MEMORY[i]))
    /\ [][C22_Step]_vars

\* a ranking pass for k >= 2 ran while an /ingest of two chunks had appended its
\* first chunk and was waiting for the embedding of its second
C22_Witness ==
    /\ askPc = "done"
    /\ askK >= 2
    /\ Len(askRanked) = 1
    /\ Len(MEMORY) = 1
    /\ addPc[1] = "embed"
    /\ addI[1] = 1

\* the :id is a decimal number
DecimalId(param) ==
    /\ param # <<>>
    /\ \A i \in 1..Len(param) : param[i] \in Range(DecimalDigits)

\* what C23 says of the states: the answer to a non-numeric id, the answer to a
\* numeric id (204, or 500 where a call failed), and the candidates of the later /ask
C23_States ==
    /\ (dlPc = "done" /\ ~DecimalId(dlParam)) => dlStatus = 400
    /\ (dlPc = "done" /\ DecimalId(dlParam)) => dlStatus \in {204, 500}
    /\ caPc = "done" => \A j \in 1..Len(caTop) : caTop[j].id # dlId

\* what C23 says of the answering step
C23_Answer ==
    /\ (dlPc # "done" /\ dlPc' = "done" /\ dlStatus' = 204) =>
          /\ dlId \notin RowIds(D1')
          /\ dlId \notin VECTORS'
    /\ (dlPc # "done" /\ dlPc' = "done" /\ dlStatus' = 400) =>
          /\ D1' = D1
          /\ VECTORS' = VECTORS

\* C23 (as stated): DELETE /delete/:id with a numeric id removes the id from the D1
\* rows and from the index and answers 204, and no /ask that arrives after the answer
\* returns a candidate with that id; a non-numeric id answers 400 and deletes nothing.
C23_DeleteRemovesForGood == []C23_States /\ [][C23_Answer]_vars

\* no request of the Express app is in flight
NoLocalRequest ==
    /\ \A c \in AddCalls : addPc[c] \in {"idle", "done", "failed"}
    /\ ~savePending

\* MEMORY and NEXT_ID after a restart (`const MEMORY = []; let NEXT_ID = 1`) and the
\* loadMemory of the boot, which changes nothing when memory.json is missing
MemoryAfterRestart == IF DISK.exists THEN DISK.items ELSE <<>>
NextIdAfterRestart == IF DISK.exists THEN NextIdAfter(DISK.nextId, DISK.items) ELSE 1

\* C24 (as stated): after any sequence of completed /ingest, /clear and /import
\* requests, whether they ended in success or in an error response, a restart
\* followed by loadMemory restores exactly the MEMORY items and the NEXT_ID that were
\* in memory before the restart.
C24_RestartRestores ==
    NoLocalRequest =>
        /\ MemoryAfterRestart = MEMORY
        /\ NextIdAfterRestart = NEXT_ID

\* the same where no /ingest ended in an error response
C24_RestartRestoresAfterSuccess ==
    (NoLocalRequest /\ \A c \in AddCalls : addPc[c] # "failed") =>
        /\ MemoryAfterRestart = MEMORY
        /\ NextIdAfterRestart = NEXT_ID

\* the positions of the index among its best 12 whose row has a text that is not blank
PoolCandidates ==
    {i \in 1..Min(Len(vIndex), MinPool) : vRows[i].kind = "row" /\ Trim(vRows[i].text) # <<>>}

\* C27: topKByVectorize asks the index for exactly max(k, 12) candidates; for k <= 12
\* the pool that is re-ranked holds the best 12 of the index (all of a shorter index),
\* and every one of them competes for the final k: a candidate of the pool that is
\* left out scores no higher than any entry returned.
C27_PoolIsMaxK12 ==
    /\ vPc \in {"hydrate", "done"} =>
          /\ vTopK = IF vK > 12 THEN vK ELSE 12
          /\ Len(vMatches) = Min(Len(vIndex), vTopK)
          /\ \A i \in 1..Len(vMatches) : vMatches[i] = vIndex[i]
    /\ (vPc = "done" /\ vK <= 12) =>
          /\ Len(vItems) = Min(Len(vIndex), 12)
          /\ Len(vResult) = Min(vK, Cardinality(PoolCandidates))
          /\ \A j \in 1..Len(vResult) : vResult[j].id \in PoolCandidates
          /\ \A i \in PoolCandidates :
                (\A j \in 1..Len(vResult) : vResult[j].id # i) =>
                   \A j \in 1..Len(vResult) : vItems[i].score <= vResult[j].score

\* k = 1 and the index holds 12 vectors: the entry returned is the 12th, the last of
\* the pool
C27_Witness ==
    /\ vPc = "done"
    /\ vK = 1
    /\ Len(vIndex) = 12
    /\ Len(vResult) = 1
    /\ vResult[1].id = 12

\* the topKByCosine half of C26: no chunk is placed after one with a strictly lower
\* cosine score, although the scores returned are rounded to 4 decimals
C26_CosineOrderIsFullPrecision ==
    askPc = "done" =>
        \A i, j \in 1..Len(askRanked) :
           i < j => CosOf(askRanked[i].id) >= CosOf(askRanked[j].id)

\* C26 (as stated): rounding to 4 decimals is for display only; in topKByCosine and
\* in topKByVectorize no candidate with a strictly higher full-precision score (cosine
\* score, index score plus keyword boost) is placed after one with a lower score.
C26_RoundingIsDisplayOnly ==
    /\ C26_CosineOrderIsFullPrecision
    /\ vPc = "done" =>
          \A i, j \in 1..Len(vResult) :
             i < j => ~(FullBoosted(vResult[j]) > FullBoosted(vResult[i]))

\* the result for k1 is, entry by entry, the beginning of the result for the larger k
PrefixOfResult(k1) ==
    LET r1 == VectorizeTop(vQuestion, k1, vIndex, vRows)
    IN /\ Len(r1) = Min(k1, Len(vResult))
       /\ r1 = SubSeq(vResult, 1, Len(r1))

\* C25 (as stated): for fixed index and store contents and a fixed question, and an
\* index whose match list for a larger topK extends the one for a smaller topK, for
\* any k1 < k2 the candidates topKByVectorize returns for k1 are, in the same order,
\* the first candidates it returns for k2.
C25_SmallerKIsPrefixAnyK ==
    vPc = "done" => \A k1 \in 1..(vK - 1) : PrefixOfResult(k1)

\* C25 (amended): the same for any k1 < k2 <= 12, the sizes for which both calls
\* re-rank the same pool of 12 candidates.
C25_SmallerKIsPrefixInPool ==
    (vPc = "done" /\ vK <= MinPool) => \A k1 \in 1..(vK - 1) : PrefixOfResult(k1)

\* k2 = 8 over an index of 13 vectors: the 9th match is boosted into the result, which
\* is compared with the results for k1 = 1..7
C25_Witness ==
    /\ vPc = "done"
    /\ vK = 8
    /\ Len(vIndex) = 13
    /\ Len(vResult) = 8
    /\ \E j \in 1..8 : vResult[j].id = 9

\* no /ingest, /delete/:id or /clear request is between its arrival and its response
NoCloudRequestInFlight ==
    /\ \A r \in Ingests : igPc[r] \in {"idle", "done"}
    /\ dlPc \in {"idle", "done"}
    /\ clPc \in {"idle", "done"}

\* C28: in cloud mode, whenever no request is in flight, the ids of the rows of the D1
\* chunks table are the ids of the vectors of the index, after any sequence and any
\* interleaving of /ingest, /delete/:id and /clear requests, failed ones included.
C28_RowsMatchVectors ==
    NoCloudRequestInFlight => RowIds(D1) = VECTORS

\* the same once a single /ingest has answered 200 and nothing else has run
C28_RowsMatchVectorsAfterOneIngest ==
    (dlPc = "idle" /\ clPc = "idle" /\ igPc[1] = "done" /\ igStatus[1] = 200)
        => RowIds(D1) = VECTORS

\* request r answered 500 having inserted a row whose vector it did not upsert
FailedAfterInsert(r) ==
    /\ igPc[r] = "done"
    /\ igStatus[r] = 500
    /\ Cardinality({i \in 1..Len(igLog[r]) : igLog[r][i].inserted}) > igAdded[r]

\* request r2 arrived after r1 had answered, carried the same text and answered 200
LaterSameIngestSucceeded(r1, r2) ==
    /\ r1 \in igAfter[r2]
    /\ igParts[r2] = igParts[r1]
    /\ igPc[r2] = "done"
    /\ igStatus[r2] = 200

\* every chunk of the request's text has a row whose id has a vector in the index
EveryChunkHasVector(r) ==
    \A p \in 1..Len(igParts[r]) :
        \E i \in 1..Len(D1) : D1[i].text = igParts[r][p] /\ D1[i].id \in VECTORS

\* C29: if a cloud /ingest of text T fails after a chunk's row was inserted in D1 but
\* before its vector was upserted, a later /ingest of the same T that completes
\* successfully leaves every chunk of T with a vector in the index.
C29_ReingestRepairs ==
    \A r1, r2 \in Ingests :
        (FailedAfterInsert(r1) /\ LaterSameIngestSucceeded(r1, r2))
            => EveryChunkHasVector(r1)

\* the insertChunk calls that have reported inserted: true for the text
InsertedCalls(text) ==
    {<<r, i>> \in Ingests \X (1..2) :
        /\ i <= Len(igLog[r])
        /\ igParts[r][i] = text
        /\ igLog[r][i].inserted}

\* the requests whose text has a chunk with the text
IngestsOf(text) == {r \in Ingests : \E p \in 1..Len(igParts[r]) : igParts[r][p] = text}

\* C30: under any interleaving of concurrent insertChunk calls with the same chunk
\* text, the D1 chunks table has at most one row for that content hash, and exactly one
\* of the calls reports inserted: true (here for 'b', which no row holds at the start:
\* at most one call at any time, and one once every request with the text answered 200).
C30_OneRowPerHash ==
    LET text == <<"b">>
    IN /\ Cardinality(RowsWithHash(text)) <= 1
       /\ Cardinality(InsertedCalls(text)) <= 1
       /\ (/\ IngestsOf(text) # {}
           /\ \A r \in IngestsOf(text) : igPc[r] = "done" /\ igStatus[r] = 200)
            => Cardinality(InsertedCalls(text)) = 1

\* the same for requests served one after the other
C30_OneRowPerHashInSequence ==
    (\A r1, r2 \in Ingests :
        (r1 # r2 /\ igPc[r1] # "idle" /\ igPc[r2] # "idle")
            => (r1 \in igAfter[r2] \/ r2 \in igAfter[r1]))
        => C30_OneRowPerHash

====
